---- MODULE Spec2Model ----
(***************************************************************************)
(* Trusted worktop analysis of a transaction manifest                      *)
(* (crates/radix-engine-toolkit/src/transaction_types/traverser/auxiliary/ *)
(* trusted_worktop/mod.rs).                                                *)
(*                                                                         *)
(* TrustedWorktop::on_instruction is called once per manifest instruction, *)
(* in order.  It drives a worktop content tracker and a bucket tracker and *)
(* pushes one TrustedWorktopInstruction per instruction.  The dispatcher   *)
(* (mod.rs) is translated arm by arm; the two trackers and the call        *)
(* handlers live in sibling modules (bucket_tracker, worktop_content_      *)
(* tracker, handler_method_calls, handler_function_calls) and are modelled *)
(* from their documented contracts.                                        *)
(***************************************************************************)
EXTENDS Integers, Sequences, FiniteSets, TLC

\* ------------------------------------------------------------------ bounds
MaxInstructions == 3
MaxBuckets == 2
MaxAmount == 2

\* Resource addresses: one fungible and one non-fungible resource.
FungibleAddresses == {"XRD"}
NonFungibleAddresses == {"NFT"}
ResourceAddresses == FungibleAddresses \cup NonFungibleAddresses
NonFungibleLocalIds == {"#1#", "#2#"}

Amounts == 0..MaxAmount
IdSets == SUBSET NonFungibleLocalIds
BucketIds == 0..(MaxBuckets - 1)

\* -------------------------------------------------------- ResourceSpecifier
\* Option<ResourceSpecifier>::None
None == [tag |-> "None"]
Amount(resource_address, amount) ==
    [tag |-> "Amount", resource_address |-> resource_address, amount |-> amount]
Ids(resource_address, ids) ==
    [tag |-> "Ids", resource_address |-> resource_address, ids |-> ids]

\* Specifiers a manifest instruction can name.
Specifiers ==
    {Amount(r, a) : r \in ResourceAddresses, a \in Amounts}
      \cup {Ids(r, i) : r \in ResourceAddresses, i \in IdSets}

\* Specifiers whose tag matches the fungibility of the resource address.
WellFormedSpecifiers ==
    {Amount(r, a) : r \in FungibleAddresses, a \in Amounts}
      \cup {Ids(r, i) : r \in NonFungibleAddresses, i \in IdSets}

\* ------------------------------------------------------------------- state
VARIABLES
    trusted_state_per_instruction, \* Vec<TrustedWorktopInstruction>
    bucket_tracker,                \* BucketTracker
    worktop_content_tracker,       \* WorktopContentTracker
    panic,                         \* "none", or the message of the panic that aborted the analysis
    instruction_index,             \* number of on_instruction calls made by the traverser
    only_pure,                     \* every instruction so far was a pure proof / auth zone operation
    direct_vault_index,            \* index of the first CallDirectVaultMethod, -1 before it
    conc_worktop,                  \* the worktop of the executed transaction
    conc_buckets,                  \* the buckets of the executed transaction
    conc_next_bucket,              \* the identifier the manifest gives the next bucket
    conc_moved                     \* what the latest executed instruction moved

vars ==
    << trusted_state_per_instruction, bucket_tracker, worktop_content_tracker, panic,
       instruction_index, only_pure, direct_vault_index,
       conc_worktop, conc_buckets, conc_next_bucket, conc_moved >>

concvars == << conc_worktop, conc_buckets, conc_next_bucket, conc_moved >>

\* ------------------------------------------------- WorktopContentTracker
EmptyWorktop == [r \in ResourceAddresses |-> None]

WorktopContentTracker_default ==
    [worktop_content |-> EmptyWorktop, untrack_worktop_content |-> FALSE]

worktop_is_untracked_mode(wt) == wt.untrack_worktop_content

\* Tracked -> Untracked; the tracked mapping is dropped.  Idempotent.
worktop_enter_untracked_mode(wt) ==
    [worktop_content |-> EmptyWorktop, untrack_worktop_content |-> TRUE]

\* Two specifiers can be merged when they have the same address and tag.
Mergeable(a, b) ==
    a.tag = b.tag /\ a.tag # "None" /\ a.resource_address = b.resource_address

\* Amounts add up, id sets are united.
Merge(a, b) ==
    IF a.tag = "Amount"
    THEN Amount(a.resource_address, a.amount + b.amount)
    ELSE Ids(a.resource_address, a.ids \cup b.ids)

\* put: [ok, wt].  No-op while untracked; an incompatible merge is rejected.
put_to_worktop(wt, resources) ==
    LET cur == wt.worktop_content[resources.resource_address] IN
    IF wt.untrack_worktop_content THEN [ok |-> TRUE, wt |-> wt]
    ELSE IF cur = None
    THEN [ok |-> TRUE,
          wt |-> [wt EXCEPT !.worktop_content[resources.resource_address] = resources]]
    ELSE IF Mergeable(cur, resources)
    THEN [ok |-> TRUE,
          wt |-> [wt EXCEPT !.worktop_content[resources.resource_address] =
                                 Merge(cur, resources)]]
    ELSE [ok |-> FALSE, wt |-> wt]

\* take_known: [ok, wt].  Succeeds only against an entry of the same tag that
\* holds at least the requested amount / all of the requested ids.
take_from_worktop(wt, resources) ==
    LET cur == wt.worktop_content[resources.resource_address] IN
    IF wt.untrack_worktop_content \/ cur.tag # resources.tag
    THEN [ok |-> FALSE, wt |-> wt]
    ELSE IF resources.tag = "Amount"
    THEN IF cur.amount >= resources.amount
         THEN [ok |-> TRUE,
               wt |-> [wt EXCEPT !.worktop_content[resources.resource_address] =
                          Amount(resources.resource_address, cur.amount - resources.amount)]]
         ELSE [ok |-> FALSE, wt |-> wt]
    ELSE IF resources.ids \subseteq cur.ids
         THEN [ok |-> TRUE,
               wt |-> [wt EXCEPT !.worktop_content[resources.resource_address] =
                          Ids(resources.resource_address, cur.ids \ resources.ids)]]
         ELSE [ok |-> FALSE, wt |-> wt]

\* take_all_of: [res, wt].  Removes and returns the entry of the address, if any.
take_from_worktop_by_address(wt, resource_address) ==
    IF wt.untrack_worktop_content
    THEN [res |-> None, wt |-> wt]
    ELSE [res |-> wt.worktop_content[resource_address],
          wt |-> [wt EXCEPT !.worktop_content[resource_address] = None]]

\* ------------------------------------------------------------ BucketTracker
NoBuckets == [b \in {} |-> None]

BucketTracker_default ==
    [buckets |-> NoBuckets, untrack_buckets |-> FALSE, next_id |-> 0]

bucket_is_untracked_mode(bt) == bt.untrack_buckets

\* Tracked -> Untracked; the tracked mapping is dropped.  Idempotent.
bucket_enter_untracked_mode(bt) ==
    [buckets |-> NoBuckets, untrack_buckets |-> TRUE, next_id |-> 0]

\* Registers the next bucket identifier with content (None: unknown content).
new_bucket(bt, content) ==
    IF bt.untrack_buckets THEN bt
    ELSE [bt EXCEPT
            !.buckets = [b \in DOMAIN bt.buckets \cup {bt.next_id} |->
                            IF b = bt.next_id THEN content ELSE bt.buckets[b]],
            !.next_id = bt.next_id + 1]

new_bucket_known_resources(bt, resources) == new_bucket(bt, resources)

new_bucket_unknown_resources(bt) == new_bucket(bt, None)

\* bucket_consumed: [found, res, bt].  Removes the bucket; found = FALSE is the
\* lookup error for an identifier that is not in the map.
bucket_consumed(bt, bucket_id) ==
    IF bt.untrack_buckets \/ bucket_id \notin DOMAIN bt.buckets
    THEN [found |-> FALSE, res |-> None, bt |-> bt]
    ELSE [found |-> TRUE, res |-> bt.buckets[bucket_id],
          bt |-> [bt EXCEPT !.buckets =
                     [b \in DOMAIN bt.buckets \ {bucket_id} |-> bt.buckets[b]]]]

\* try_consume_fungible_from_bucket: [found, res].  The bucket is not changed.
try_consume_fungible_from_bucket(bt, bucket_id, amount) ==
    IF bt.untrack_buckets THEN [found |-> TRUE, res |-> None]
    ELSE IF bucket_id \notin DOMAIN bt.buckets THEN [found |-> FALSE, res |-> None]
    ELSE LET cur == bt.buckets[bucket_id] IN
         IF cur.tag = "Amount" /\ cur.amount >= amount
         THEN [found |-> TRUE, res |-> Amount(cur.resource_address, amount)]
         ELSE [found |-> TRUE, res |-> None]

\* try_consume_non_fungible_from_bucket: [found, res].  The bucket is not changed.
try_consume_non_fungible_from_bucket(bt, bucket_id, ids) ==
    IF bt.untrack_buckets THEN [found |-> TRUE, res |-> None]
    ELSE IF bucket_id \notin DOMAIN bt.buckets THEN [found |-> FALSE, res |-> None]
    ELSE LET cur == bt.buckets[bucket_id] IN
         IF cur.tag = "Ids" /\ ids \subseteq cur.ids
         THEN [found |-> TRUE, res |-> Ids(cur.resource_address, ids)]
         ELSE [found |-> TRUE, res |-> None]

\* ------------------------------------------------------------ TrustedWorktop
\* The struct, as a record, with the panic that unwinds out of on_instruction.
TrustedWorktop_default ==
    [out |-> << >>, bt |-> BucketTracker_default, wt |-> WorktopContentTracker_default,
     panic |-> "none"]

TrustedWorktopInstruction(trusted, resources) ==
    [trusted |-> trusted, resources |-> resources]

\* Variant: an instruction without resources is not recorded.
add_new_instruction_skips_none(s, trusted, input_resources) ==
    IF input_resources = None THEN s
    ELSE [s EXCEPT !.out = Append(s.out,
                               TrustedWorktopInstruction(trusted, << input_resources >>))]

\* Variant: an untrusted verdict also withdraws the resources of the verdict
\* before it.
add_new_instruction_rewrites(s, trusted, input_resources) ==
    LET resources == IF input_resources # None THEN << input_resources >> ELSE << >>
        n == Len(s.out)
        earlier == IF ~trusted /\ n > 0
                   THEN [s.out EXCEPT ![n] = TrustedWorktopInstruction(@.trusted, << >>)]
                   ELSE s.out
    IN  [s EXCEPT !.out = Append(earlier, TrustedWorktopInstruction(trusted, resources))]

add_new_instruction(s, trusted, input_resources) ==
    LET resources == IF input_resources # None THEN << input_resources >> ELSE << >> IN
    [s EXCEPT !.out = Append(s.out, TrustedWorktopInstruction(trusted, resources))]

Panic(s, message) == [s EXCEPT !.panic = message]

\* -------------------------------------------- on_instruction, arm by arm
\* Variant: on an untracked worktop no bucket is registered.
on_TakeAllFromWorktop_no_bucket(s, resource_address) ==
    IF ~worktop_is_untracked_mode(s.wt)
    THEN LET t == take_from_worktop_by_address(s.wt, resource_address) IN
         IF t.res = None
         THEN Panic(s, "Expected resources")
         ELSE add_new_instruction(
                  [s EXCEPT !.wt = t.wt,
                            !.bt = new_bucket_known_resources(s.bt, t.res)],
                  TRUE, t.res)
    ELSE add_new_instruction(s, FALSE, None)

\* Variant: the content is read off the worktop and stays on it.
on_TakeAllFromWorktop_leaves_pool(s, resource_address) ==
    IF ~worktop_is_untracked_mode(s.wt)
    THEN LET t == take_from_worktop_by_address(s.wt, resource_address) IN
         IF t.res = None
         THEN Panic(s, "Expected resources")
         ELSE add_new_instruction(
                  [s EXCEPT !.bt = new_bucket_known_resources(s.bt, t.res)],
                  TRUE, t.res)
    ELSE add_new_instruction(
             [s EXCEPT !.bt = new_bucket_unknown_resources(s.bt)], FALSE, None)

\* Variant: taking all of one resource empties the whole worktop.
on_TakeAllFromWorktop_clears_worktop(s, resource_address) ==
    IF ~worktop_is_untracked_mode(s.wt)
    THEN LET t == take_from_worktop_by_address(s.wt, resource_address) IN
         IF t.res = None
         THEN Panic(s, "Expected resources")
         ELSE add_new_instruction(
                  [s EXCEPT !.wt = WorktopContentTracker_default,
                            !.bt = new_bucket_known_resources(s.bt, t.res)],
                  TRUE, t.res)
    ELSE add_new_instruction(
             [s EXCEPT !.bt = new_bucket_unknown_resources(s.bt)], FALSE, None)

\* InstructionV1::TakeAllFromWorktop { resource_address }
on_TakeAllFromWorktop(s, resource_address) ==
    IF ~worktop_is_untracked_mode(s.wt)
    THEN LET t == take_from_worktop_by_address(s.wt, resource_address) IN
         IF t.res = None
         THEN Panic(s, "Expected resources")
         ELSE add_new_instruction(
                  [s EXCEPT !.wt = t.wt,
                            !.bt = new_bucket_known_resources(s.bt, t.res)],
                  TRUE, t.res)
    ELSE add_new_instruction(
             [s EXCEPT !.bt = new_bucket_unknown_resources(s.bt)], FALSE, None)

\* Variant: the reduced worktop content is not stored back.
take_known_arm_stale_worktop(s, resources) ==
    IF ~worktop_is_untracked_mode(s.wt)
    THEN LET t == take_from_worktop(s.wt, resources) IN
         IF t.ok
         THEN add_new_instruction(
                  [s EXCEPT !.bt = new_bucket_known_resources(s.bt, resources)],
                  TRUE, resources)
         ELSE add_new_instruction(
                  [s EXCEPT !.bt = new_bucket_unknown_resources(s.bt)], FALSE, None)
    ELSE add_new_instruction(
             [s EXCEPT !.bt = new_bucket_unknown_resources(s.bt)], FALSE, None)

\* Variant: a failed take gives up on the worktop.
take_known_arm_gives_up(s, resources) ==
    IF ~worktop_is_untracked_mode(s.wt)
    THEN LET t == take_from_worktop(s.wt, resources) IN
         IF t.ok
         THEN add_new_instruction(
                  [s EXCEPT !.wt = t.wt,
                            !.bt = new_bucket_known_resources(s.bt, resources)],
                  TRUE, resources)
         ELSE add_new_instruction(
                  [s EXCEPT !.wt = worktop_enter_untracked_mode(s.wt),
                            !.bt = new_bucket_unknown_resources(s.bt)], FALSE, None)
    ELSE add_new_instruction(
             [s EXCEPT !.bt = new_bucket_unknown_resources(s.bt)], FALSE, None)

\* Variant: a failed take gives up on the buckets.
take_known_arm_untracks_buckets(s, resources) ==
    IF ~worktop_is_untracked_mode(s.wt)
    THEN LET t == take_from_worktop(s.wt, resources) IN
         IF t.ok
         THEN add_new_instruction(
                  [s EXCEPT !.wt = t.wt,
                            !.bt = new_bucket_known_resources(s.bt, resources)],
                  TRUE, resources)
         ELSE add_new_instruction(
                  [s EXCEPT !.bt = bucket_enter_untracked_mode(s.bt)], FALSE, None)
    ELSE add_new_instruction(
             [s EXCEPT !.bt = new_bucket_unknown_resources(s.bt)], FALSE, None)

\* Variant: a failed take registers no bucket.
take_known_arm_no_bucket_on_failure(s, resources) ==
    IF ~worktop_is_untracked_mode(s.wt)
    THEN LET t == take_from_worktop(s.wt, resources) IN
         IF t.ok
         THEN add_new_instruction(
                  [s EXCEPT !.wt = t.wt,
                            !.bt = new_bucket_known_resources(s.bt, resources)],
                  TRUE, resources)
         ELSE add_new_instruction(s, FALSE, None)
    ELSE add_new_instruction(
             [s EXCEPT !.bt = new_bucket_unknown_resources(s.bt)], FALSE, None)

\* Variant: on an untracked worktop the bucket is registered with the requested
\* specifier.
take_known_arm_believes_request(s, resources) ==
    IF ~worktop_is_untracked_mode(s.wt)
    THEN LET t == take_from_worktop(s.wt, resources) IN
         IF t.ok
         THEN add_new_instruction(
                  [s EXCEPT !.wt = t.wt,
                            !.bt = new_bucket_known_resources(s.bt, resources)],
                  TRUE, resources)
         ELSE add_new_instruction(
                  [s EXCEPT !.bt = new_bucket_unknown_resources(s.bt)], FALSE, None)
    ELSE add_new_instruction(
             [s EXCEPT !.bt = new_bucket_known_resources(s.bt, resources)], FALSE, None)

\* The body shared by TakeFromWorktop and TakeNonFungiblesFromWorktop once the
\* requested specifier is built.
take_known_arm(s, resources) ==
    IF ~worktop_is_untracked_mode(s.wt)
    THEN LET t == take_from_worktop(s.wt, resources) IN
         IF t.ok
         THEN add_new_instruction(
                  [s EXCEPT !.wt = t.wt,
                            !.bt = new_bucket_known_resources(s.bt, resources)],
                  TRUE, resources)
         ELSE add_new_instruction(
                  [s EXCEPT !.bt = new_bucket_unknown_resources(s.bt)], FALSE, None)
    ELSE add_new_instruction(
             [s EXCEPT !.bt = new_bucket_unknown_resources(s.bt)], FALSE, None)

\* Variant: the bucket of a failed take is registered with the requested amount.
on_TakeFromWorktop_known_bucket(s, resource_address, amount) ==
    LET resources == Amount(resource_address, amount) IN
    IF ~worktop_is_untracked_mode(s.wt)
    THEN LET t == take_from_worktop(s.wt, resources) IN
         IF t.ok
         THEN add_new_instruction(
                  [s EXCEPT !.wt = t.wt,
                            !.bt = new_bucket_known_resources(s.bt, resources)],
                  TRUE, resources)
         ELSE add_new_instruction(
                  [s EXCEPT !.bt = new_bucket_known_resources(s.bt, resources)],
                  FALSE, None)
    ELSE add_new_instruction(
             [s EXCEPT !.bt = new_bucket_unknown_resources(s.bt)], FALSE, None)

\* Variant: the answer of take_from_worktop is not looked at.
on_TakeFromWorktop_ignores_result(s, resource_address, amount) ==
    LET resources == Amount(resource_address, amount) IN
    IF ~worktop_is_untracked_mode(s.wt)
    THEN LET t == take_from_worktop(s.wt, resources) IN
         add_new_instruction(
             [s EXCEPT !.wt = t.wt,
                       !.bt = new_bucket_known_resources(s.bt, resources)],
             TRUE, resources)
    ELSE add_new_instruction(
             [s EXCEPT !.bt = new_bucket_unknown_resources(s.bt)], FALSE, None)

\* InstructionV1::TakeFromWorktop { resource_address, amount }
on_TakeFromWorktop(s, resource_address, amount) ==
    take_known_arm(s, Amount(resource_address, amount))

\* Variant: the ids that are on the worktop are taken, the others are dropped
\* from the request.
on_TakeNonFungiblesFromWorktop_takes_present(s, resource_address, ids) ==
    LET cur == s.wt.worktop_content[resource_address]
        present == IF cur.tag = "Ids" THEN ids \cap cur.ids ELSE ids
    IN  take_known_arm(s, Ids(resource_address, present))

\* InstructionV1::TakeNonFungiblesFromWorktop { resource_address, ids }
on_TakeNonFungiblesFromWorktop(s, resource_address, ids) ==
    take_known_arm(s, Ids(resource_address, ids))

\* Variant: returning a known bucket starts tracking the worktop again.
on_ReturnToWorktop_retracks(s, bucket_id) ==
    IF ~bucket_is_untracked_mode(s.bt)
    THEN LET c == bucket_consumed(s.bt, bucket_id) IN
         IF ~c.found
         THEN Panic(s, "Must succeed")
         ELSE IF c.res # None
         THEN LET s1 == add_new_instruction([s EXCEPT !.bt = c.bt], TRUE, c.res)
                  w == IF worktop_is_untracked_mode(s1.wt)
                       THEN WorktopContentTracker_default ELSE s1.wt
                  p == put_to_worktop(w, c.res) IN
              IF p.ok THEN [s1 EXCEPT !.wt = p.wt]
              ELSE Panic(s1, "incompatible resource specifiers")
         ELSE add_new_instruction(
                  [s EXCEPT !.bt = c.bt, !.wt = worktop_enter_untracked_mode(s.wt)],
                  FALSE, None)
    ELSE add_new_instruction(
             [s EXCEPT !.wt = worktop_enter_untracked_mode(s.wt)], FALSE, None)

\* Variant: the content of a known bucket is not put back.
on_ReturnToWorktop_no_put(s, bucket_id) ==
    IF ~bucket_is_untracked_mode(s.bt)
    THEN LET c == bucket_consumed(s.bt, bucket_id) IN
         IF ~c.found
         THEN Panic(s, "Must succeed")
         ELSE IF c.res # None
         THEN add_new_instruction([s EXCEPT !.bt = c.bt], TRUE, c.res)
         ELSE add_new_instruction(
                  [s EXCEPT !.bt = c.bt, !.wt = worktop_enter_untracked_mode(s.wt)],
                  FALSE, None)
    ELSE add_new_instruction(
             [s EXCEPT !.wt = worktop_enter_untracked_mode(s.wt)], FALSE, None)

\* Variant: a known bucket returned to an untracked worktop is not trusted.
on_ReturnToWorktop_untrusted_when_untracked(s, bucket_id) ==
    IF ~bucket_is_untracked_mode(s.bt)
    THEN LET c == bucket_consumed(s.bt, bucket_id) IN
         IF ~c.found
         THEN Panic(s, "Must succeed")
         ELSE IF c.res # None /\ ~worktop_is_untracked_mode(s.wt)
         THEN LET s1 == add_new_instruction([s EXCEPT !.bt = c.bt], TRUE, c.res)
                  p == put_to_worktop(s1.wt, c.res) IN
              IF p.ok THEN [s1 EXCEPT !.wt = p.wt]
              ELSE Panic(s1, "incompatible resource specifiers")
         ELSE add_new_instruction(
                  [s EXCEPT !.bt = c.bt, !.wt = worktop_enter_untracked_mode(s.wt)],
                  FALSE, None)
    ELSE add_new_instruction(
             [s EXCEPT !.wt = worktop_enter_untracked_mode(s.wt)], FALSE, None)

\* Variant: returning a bucket of unknown content leaves the worktop tracked.
on_ReturnToWorktop_keeps_tracking(s, bucket_id) ==
    IF ~bucket_is_untracked_mode(s.bt)
    THEN LET c == bucket_consumed(s.bt, bucket_id) IN
         IF ~c.found
         THEN Panic(s, "Must succeed")
         ELSE IF c.res # None
         THEN LET s1 == add_new_instruction([s EXCEPT !.bt = c.bt], TRUE, c.res) IN
              IF ~worktop_is_untracked_mode(s1.wt)
              THEN LET p == put_to_worktop(s1.wt, c.res) IN
                   IF p.ok THEN [s1 EXCEPT !.wt = p.wt]
                   ELSE Panic(s1, "incompatible resource specifiers")
              ELSE s1
         ELSE add_new_instruction([s EXCEPT !.bt = c.bt], FALSE, None)
    ELSE add_new_instruction(
             [s EXCEPT !.wt = worktop_enter_untracked_mode(s.wt)], FALSE, None)

\* Variant: a bucket that is not found is returned as a bucket of unknown content.
on_ReturnToWorktop_lenient(s, bucket_id) ==
    IF ~bucket_is_untracked_mode(s.bt)
    THEN LET c == bucket_consumed(s.bt, bucket_id) IN
         IF c.res # None
         THEN LET s1 == add_new_instruction([s EXCEPT !.bt = c.bt], TRUE, c.res) IN
              IF ~worktop_is_untracked_mode(s1.wt)
              THEN LET p == put_to_worktop(s1.wt, c.res) IN
                   IF p.ok THEN [s1 EXCEPT !.wt = p.wt]
                   ELSE Panic(s1, "incompatible resource specifiers")
              ELSE s1
         ELSE add_new_instruction(
                  [s EXCEPT !.bt = c.bt, !.wt = worktop_enter_untracked_mode(s.wt)],
                  FALSE, None)
    ELSE add_new_instruction(
             [s EXCEPT !.wt = worktop_enter_untracked_mode(s.wt)], FALSE, None)

\* Variant: the returned content replaces the pool entry of its resource.
on_ReturnToWorktop_overwrites(s, bucket_id) ==
    IF ~bucket_is_untracked_mode(s.bt)
    THEN LET c == bucket_consumed(s.bt, bucket_id) IN
         IF ~c.found
         THEN Panic(s, "Must succeed")
         ELSE IF c.res # None
         THEN LET s1 == add_new_instruction([s EXCEPT !.bt = c.bt], TRUE, c.res) IN
              IF ~worktop_is_untracked_mode(s1.wt)
              THEN [s1 EXCEPT !.wt.worktop_content[c.res.resource_address] = c.res]
              ELSE s1
         ELSE add_new_instruction(
                  [s EXCEPT !.bt = c.bt, !.wt = worktop_enter_untracked_mode(s.wt)],
                  FALSE, None)
    ELSE add_new_instruction(
             [s EXCEPT !.wt = worktop_enter_untracked_mode(s.wt)], FALSE, None)

\* Variant: returning a bucket of unknown content gives up on the buckets too.
on_ReturnToWorktop_untracks_buckets(s, bucket_id) ==
    IF ~bucket_is_untracked_mode(s.bt)
    THEN LET c == bucket_consumed(s.bt, bucket_id) IN
         IF ~c.found
         THEN Panic(s, "Must succeed")
         ELSE IF c.res # None
         THEN LET s1 == add_new_instruction([s EXCEPT !.bt = c.bt], TRUE, c.res) IN
              IF ~worktop_is_untracked_mode(s1.wt)
              THEN LET p == put_to_worktop(s1.wt, c.res) IN
                   IF p.ok THEN [s1 EXCEPT !.wt = p.wt]
                   ELSE Panic(s1, "incompatible resource specifiers")
              ELSE s1
         ELSE add_new_instruction(
                  [s EXCEPT !.bt = bucket_enter_untracked_mode(s.bt),
                            !.wt = worktop_enter_untracked_mode(s.wt)],
                  FALSE, None)
    ELSE add_new_instruction(
             [s EXCEPT !.wt = worktop_enter_untracked_mode(s.wt)], FALSE, None)

\* InstructionV1::ReturnToWorktop { bucket_id }
on_ReturnToWorktop(s, bucket_id) ==
    IF ~bucket_is_untracked_mode(s.bt)
    THEN LET c == bucket_consumed(s.bt, bucket_id) IN
         IF ~c.found
         THEN Panic(s, "Must succeed")
         ELSE IF c.res # None
         THEN LET s1 == add_new_instruction([s EXCEPT !.bt = c.bt], TRUE, c.res) IN
              IF ~worktop_is_untracked_mode(s1.wt)
              THEN LET p == put_to_worktop(s1.wt, c.res) IN
                   IF p.ok THEN [s1 EXCEPT !.wt = p.wt]
                   ELSE Panic(s1, "incompatible resource specifiers")
              ELSE s1
         ELSE add_new_instruction(
                  [s EXCEPT !.bt = c.bt, !.wt = worktop_enter_untracked_mode(s.wt)],
                  FALSE, None)
    ELSE add_new_instruction(
             [s EXCEPT !.wt = worktop_enter_untracked_mode(s.wt)], FALSE, None)

\* The sixteen variants of the arm that only records a trusted verdict.
PureOperations ==
    {"AssertWorktopContainsAny", "AssertWorktopContains",
     "AssertWorktopContainsNonFungibles", "PopFromAuthZone", "PushToAuthZone",
     "CreateProofFromAuthZoneOfAmount", "CreateProofFromAuthZoneOfNonFungibles",
     "CreateProofFromAuthZoneOfAll", "DropAuthZoneProofs", "DropAuthZoneRegularProofs",
     "DropAuthZoneSignatureProofs", "CloneProof", "DropProof", "DropNamedProofs",
     "DropAllProofs", "AllocateGlobalAddress"}

\* Variant: the arm records an untrusted verdict.
on_PureOperation_untrusted(s) == add_new_instruction(s, FALSE, None)

on_PureOperation(s) == add_new_instruction(s, TRUE, None)

\* Variant: a successful proof removes the bucket.
on_CreateProofFromBucketOfAmount_consumes(s, bucket_id, amount) ==
    LET c == try_consume_fungible_from_bucket(s.bt, bucket_id, amount) IN
    IF ~c.found THEN Panic(s, "LookupError")
    ELSE IF c.res # None
    THEN add_new_instruction(
             [s EXCEPT !.bt = bucket_consumed(s.bt, bucket_id).bt], TRUE, c.res)
    ELSE add_new_instruction(s, FALSE, None)

\* Variant: a successful proof reduces the recorded amount of the bucket.
on_CreateProofFromBucketOfAmount_decrements(s, bucket_id, amount) ==
    LET c == try_consume_fungible_from_bucket(s.bt, bucket_id, amount) IN
    IF ~c.found THEN Panic(s, "LookupError")
    ELSE IF c.res # None
    THEN add_new_instruction(
             [s EXCEPT !.bt.buckets[bucket_id] =
                           Amount(@.resource_address, @.amount - amount)],
             TRUE, c.res)
    ELSE add_new_instruction(s, FALSE, None)

\* Variant: a bucket that is not found gives an untrusted verdict.
on_CreateProofFromBucketOfAmount_lenient(s, bucket_id, amount) ==
    LET c == try_consume_fungible_from_bucket(s.bt, bucket_id, amount) IN
    IF c.res # None THEN add_new_instruction(s, TRUE, c.res)
    ELSE add_new_instruction(s, FALSE, None)

\* InstructionV1::CreateProofFromBucketOfAmount { bucket_id, amount }
\* The arm has no expect of its own: a lookup failure inside try_consume_*
\* unwinds through it.
on_CreateProofFromBucketOfAmount(s, bucket_id, amount) ==
    LET c == try_consume_fungible_from_bucket(s.bt, bucket_id, amount) IN
    IF ~c.found THEN Panic(s, "LookupError")
    ELSE IF c.res # None THEN add_new_instruction(s, TRUE, c.res)
    ELSE add_new_instruction(s, FALSE, None)

\* Variant: a proof of ids from any bucket of known content is trusted.
on_CreateProofFromBucketOfNonFungibles_trusts_known(s, bucket_id, ids) ==
    LET c == try_consume_non_fungible_from_bucket(s.bt, bucket_id, ids) IN
    IF ~c.found THEN Panic(s, "LookupError")
    ELSE IF c.res # None THEN add_new_instruction(s, TRUE, c.res)
    ELSE IF ~bucket_is_untracked_mode(s.bt) /\ s.bt.buckets[bucket_id] # None
    THEN add_new_instruction(
             s, TRUE, Ids(s.bt.buckets[bucket_id].resource_address, ids))
    ELSE add_new_instruction(s, FALSE, None)

\* Variant: the ids a proof was made of are struck off the bucket.
on_CreateProofFromBucketOfNonFungibles_removes_ids(s, bucket_id, ids) ==
    LET c == try_consume_non_fungible_from_bucket(s.bt, bucket_id, ids) IN
    IF ~c.found THEN Panic(s, "LookupError")
    ELSE IF c.res # None
    THEN add_new_instruction(
             [s EXCEPT !.bt.buckets[bucket_id] = Ids(@.resource_address, @.ids \ ids)],
             TRUE, c.res)
    ELSE add_new_instruction(s, FALSE, None)

\* InstructionV1::CreateProofFromBucketOfNonFungibles { bucket_id, ids }
on_CreateProofFromBucketOfNonFungibles(s, bucket_id, ids) ==
    LET c == try_consume_non_fungible_from_bucket(s.bt, bucket_id, ids) IN
    IF ~c.found THEN Panic(s, "LookupError")
    ELSE IF c.res # None THEN add_new_instruction(s, TRUE, c.res)
    ELSE add_new_instruction(s, FALSE, None)

\* Variant: a bucket that is not found counts as a bucket of unknown content.
on_ConsumeBucket_lenient(s, bucket_id) ==
    IF ~bucket_is_untracked_mode(s.bt)
    THEN LET c == bucket_consumed(s.bt, bucket_id) IN
         add_new_instruction([s EXCEPT !.bt = c.bt], c.res # None, c.res)
    ELSE add_new_instruction(s, FALSE, None)

\* Variant: consuming a bucket is trusted whatever its content.
on_ConsumeBucket_always_trusted(s, bucket_id) ==
    IF ~bucket_is_untracked_mode(s.bt)
    THEN LET c == bucket_consumed(s.bt, bucket_id) IN
         IF ~c.found
         THEN Panic(s, "Bucket not found")
         ELSE add_new_instruction([s EXCEPT !.bt = c.bt], TRUE, c.res)
    ELSE add_new_instruction(s, FALSE, None)

\* Variant: the bucket is looked up whatever the mode of the bucket tracker.
on_ConsumeBucket_looks_up_untracked(s, bucket_id) ==
    LET c == bucket_consumed(s.bt, bucket_id) IN
    IF ~c.found
    THEN Panic(s, "Bucket not found")
    ELSE add_new_instruction([s EXCEPT !.bt = c.bt], c.res # None, c.res)

\* InstructionV1::CreateProofFromBucketOfAll { bucket_id } | BurnResource { bucket_id }
on_ConsumeBucket(s, bucket_id) ==
    IF ~bucket_is_untracked_mode(s.bt)
    THEN LET c == bucket_consumed(s.bt, bucket_id) IN
         IF ~c.found
         THEN Panic(s, "Bucket not found")
         ELSE add_new_instruction([s EXCEPT !.bt = c.bt], c.res # None, c.res)
    ELSE add_new_instruction(s, FALSE, None)

\* The classification table of well-known calls (handler_method_calls,
\* handler_function_calls), by the effect the table gives a call.
CallEffects ==
    {[kind |-> "known_put", resources |-> x] : x \in WellFormedSpecifiers}
      \cup {[kind |-> "unknown_put"], [kind |-> "unknown_take"],
            [kind |-> "unrecognized"]}

\* Variant: a call that is not recognised is taken to move nothing.
handle_call_trusts_unrecognized(s, effect) ==
    CASE effect.kind = "known_put" ->
           LET s1 == add_new_instruction(s, TRUE, effect.resources)
               p == put_to_worktop(s1.wt, effect.resources) IN
           IF p.ok THEN [s1 EXCEPT !.wt = p.wt]
           ELSE Panic(s1, "incompatible resource specifiers")
      [] effect.kind \in {"unknown_put", "unknown_take"} ->
           add_new_instruction(
               [s EXCEPT !.wt = worktop_enter_untracked_mode(s.wt)], FALSE, None)
      [] OTHER -> add_new_instruction(s, TRUE, None)

handle_call(s, effect) ==
    CASE effect.kind = "known_put" ->
           LET s1 == add_new_instruction(s, TRUE, effect.resources)
               p == put_to_worktop(s1.wt, effect.resources) IN
           IF p.ok THEN [s1 EXCEPT !.wt = p.wt]
           ELSE Panic(s1, "incompatible resource specifiers")
      [] effect.kind \in {"unknown_put", "unknown_take"} ->
           add_new_instruction(
               [s EXCEPT !.wt = worktop_enter_untracked_mode(s.wt)], FALSE, None)
      [] OTHER ->
           add_new_instruction(
               [s EXCEPT !.wt = worktop_enter_untracked_mode(s.wt),
                         !.bt = bucket_enter_untracked_mode(s.bt)], FALSE, None)

\* InstructionV1::CallMethod { address, method_name, args }
handle_call_methods(s, effect) == handle_call(s, effect)

\* InstructionV1::CallFunction { package_address, blueprint_name, function_name, args }
handle_call_functions(s, effect) == handle_call(s, effect)

\* The methods of the component royalty module.
RoyaltyMethods == {"set_royalty", "lock_royalty", "claim_royalties"}

\* Variant: claiming royalties puts an unknown quantity on the worktop.
handle_call_royalty_methods_claim_untracks(s, method_name) ==
    IF method_name = "claim_royalties"
    THEN add_new_instruction(
             [s EXCEPT !.wt = worktop_enter_untracked_mode(s.wt)], FALSE, None)
    ELSE add_new_instruction(s, TRUE, None)

\* InstructionV1::CallRoyaltyMethod { method_name, args, .. }
handle_call_royalty_methods(s, method_name) == add_new_instruction(s, TRUE, None)

\* Variant: the calls are handled like a call of unknown effect.
on_CallRoleAssignmentOrMetadataMethod_untracks(s) ==
    add_new_instruction(
        [s EXCEPT !.wt = worktop_enter_untracked_mode(s.wt),
                  !.bt = bucket_enter_untracked_mode(s.bt)], FALSE, None)

\* InstructionV1::CallRoleAssignmentMethod { .. } | CallMetadataMethod { .. }
on_CallRoleAssignmentOrMetadataMethod(s) == add_new_instruction(s, TRUE, None)

\* Variant: only the worktop content tracker gives up.
on_CallDirectVaultMethod_worktop_only(s) ==
    add_new_instruction(
        [s EXCEPT !.wt = worktop_enter_untracked_mode(s.wt)], FALSE, None)

\* Variant: on trackers that already gave up, the call starts them afresh.
on_CallDirectVaultMethod_toggles(s) ==
    IF worktop_is_untracked_mode(s.wt) /\ bucket_is_untracked_mode(s.bt)
    THEN add_new_instruction(
             [s EXCEPT !.wt = WorktopContentTracker_default,
                       !.bt = BucketTracker_default], FALSE, None)
    ELSE add_new_instruction(
             [s EXCEPT !.wt = worktop_enter_untracked_mode(s.wt),
                       !.bt = bucket_enter_untracked_mode(s.bt)], FALSE, None)

\* InstructionV1::CallDirectVaultMethod { .. }
on_CallDirectVaultMethod(s) ==
    add_new_instruction(
        [s EXCEPT !.wt = worktop_enter_untracked_mode(s.wt),
                  !.bt = bucket_enter_untracked_mode(s.bt)],
        FALSE, None)

\* The match of on_instruction.
dispatch(s, i) ==
    CASE i.op = "TakeAllFromWorktop" -> on_TakeAllFromWorktop(s, i.resource_address)
      [] i.op = "TakeFromWorktop" -> on_TakeFromWorktop(s, i.resource_address, i.amount)
      [] i.op = "TakeNonFungiblesFromWorktop" ->
           on_TakeNonFungiblesFromWorktop(s, i.resource_address, i.ids)
      [] i.op = "ReturnToWorktop" -> on_ReturnToWorktop(s, i.bucket_id)
      [] i.op \in PureOperations -> on_PureOperation(s)
      [] i.op = "CreateProofFromBucketOfAmount" ->
           on_CreateProofFromBucketOfAmount(s, i.bucket_id, i.amount)
      [] i.op = "CreateProofFromBucketOfNonFungibles" ->
           on_CreateProofFromBucketOfNonFungibles(s, i.bucket_id, i.ids)
      [] i.op \in {"CreateProofFromBucketOfAll", "BurnResource"} ->
           on_ConsumeBucket(s, i.bucket_id)
      [] i.op = "CallMethod" -> handle_call_methods(s, i.effect)
      [] i.op = "CallFunction" -> handle_call_functions(s, i.effect)
      [] i.op = "CallRoyaltyMethod" -> handle_call_royalty_methods(s, i.method_name)
      [] i.op \in {"CallRoleAssignmentMethod", "CallMetadataMethod"} ->
           on_CallRoleAssignmentOrMetadataMethod(s)
      [] i.op = "CallDirectVaultMethod" -> on_CallDirectVaultMethod(s)

\* on_instruction: the match, then assert_eq!(len, instruction_index + 1).
on_instruction(s, instruction, index) ==
    LET r == dispatch(s, instruction) IN
    IF r.panic = "none" /\ Len(r.out) # index + 1
    THEN Panic(r, "assertion failed")
    ELSE r

\* ------------------------------------------------------------ instructions
TakeAll(r) == [op |-> "TakeAllFromWorktop", resource_address |-> r]
TakeAmount(r, a) == [op |-> "TakeFromWorktop", resource_address |-> r, amount |-> a]
TakeIds(r, i) == [op |-> "TakeNonFungiblesFromWorktop", resource_address |-> r, ids |-> i]
Return(b) == [op |-> "ReturnToWorktop", bucket_id |-> b]
Pure(o) == [op |-> o]
ProofOfAmount(b, a) == [op |-> "CreateProofFromBucketOfAmount", bucket_id |-> b, amount |-> a]
ProofOfIds(b, i) == [op |-> "CreateProofFromBucketOfNonFungibles", bucket_id |-> b, ids |-> i]
ProofOfAll(b) == [op |-> "CreateProofFromBucketOfAll", bucket_id |-> b]
Burn(b) == [op |-> "BurnResource", bucket_id |-> b]
MethodCall(e) == [op |-> "CallMethod", effect |-> e]
FunctionCall(e) == [op |-> "CallFunction", effect |-> e]
RoyaltyCall(m) == [op |-> "CallRoyaltyMethod", method_name |-> m]
RoleAssignmentCall == [op |-> "CallRoleAssignmentMethod"]
MetadataCall == [op |-> "CallMetadataMethod"]
DirectVaultCall == [op |-> "CallDirectVaultMethod"]

TakeInstructions ==
    {TakeAll(r) : r \in ResourceAddresses}
      \cup {TakeAmount(r, a) : r \in ResourceAddresses, a \in Amounts}
      \cup {TakeIds(r, i) : r \in ResourceAddresses, i \in IdSets}

ReturnInstructions == {Return(b) : b \in BucketIds}

PureInstructions == {Pure(o) : o \in PureOperations}

ProofFromBucketInstructions ==
    {ProofOfAmount(b, a) : b \in BucketIds, a \in Amounts}
      \cup {ProofOfIds(b, i) : b \in BucketIds, i \in IdSets}

ConsumeInstructions ==
    {ProofOfAll(b) : b \in BucketIds} \cup {Burn(b) : b \in BucketIds}

CallInstructions ==
    {MethodCall(e) : e \in CallEffects} \cup {FunctionCall(e) : e \in CallEffects}
      \cup {RoyaltyCall(m) : m \in RoyaltyMethods}
      \cup {RoleAssignmentCall, MetadataCall, DirectVaultCall}

Instructions ==
    TakeInstructions \cup ReturnInstructions \cup PureInstructions
      \cup ProofFromBucketInstructions \cup ConsumeInstructions \cup CallInstructions

\* ----------------------------------------------------------- the traverser
State ==
    [out |-> trusted_state_per_instruction, bt |-> bucket_tracker,
     wt |-> worktop_content_tracker, panic |-> panic]

\* The worktop of a transaction before its first instruction.
ConcEmptyWorktop ==
    [r \in ResourceAddresses |->
        IF r \in FungibleAddresses THEN Amount(r, 0) ELSE Ids(r, {})]

Init ==
    /\ trusted_state_per_instruction = TrustedWorktop_default.out
    /\ bucket_tracker = TrustedWorktop_default.bt
    /\ worktop_content_tracker = TrustedWorktop_default.wt
    /\ panic = TrustedWorktop_default.panic
    /\ instruction_index = 0
    /\ only_pure = TRUE
    /\ direct_vault_index = -1
    /\ conc_worktop = ConcEmptyWorktop
    /\ conc_buckets = NoBuckets
    /\ conc_next_bucket = 0
    /\ conc_moved = None

\* What the next on_instruction call makes of the current state.
Run(instruction) == on_instruction(State, instruction, instruction_index)

\* The traverser calls on_instruction(instruction, instruction_index) and moves
\* on to the next instruction; a panic ends the traversal.
Traverse(instruction) ==
    /\ panic = "none"
    /\ instruction_index < MaxInstructions
    /\ LET r == Run(instruction) IN
       /\ r.bt.next_id <= MaxBuckets
       /\ trusted_state_per_instruction' = r.out
       /\ bucket_tracker' = r.bt
       /\ worktop_content_tracker' = r.wt
       /\ panic' = r.panic
    /\ instruction_index' = instruction_index + 1
    /\ only_pure' = (only_pure /\ instruction.op \in PureOperations)
    /\ direct_vault_index' =
           IF direct_vault_index = -1 /\ instruction.op = "CallDirectVaultMethod"
           THEN instruction_index
           ELSE direct_vault_index

TakeAllFromWorktop ==
    \E r \in ResourceAddresses : Traverse(TakeAll(r)) /\ UNCHANGED concvars

TakeFromWorktop ==
    \E r \in ResourceAddresses, a \in Amounts : Traverse(TakeAmount(r, a)) /\ UNCHANGED concvars

TakeNonFungiblesFromWorktop ==
    \E r \in ResourceAddresses, i \in IdSets : Traverse(TakeIds(r, i)) /\ UNCHANGED concvars

ReturnToWorktop ==
    \E b \in BucketIds : Traverse(Return(b)) /\ UNCHANGED concvars

PureOperation ==
    \E o \in PureOperations : Traverse(Pure(o)) /\ UNCHANGED concvars

CreateProofFromBucketOfAmount ==
    \E b \in BucketIds, a \in Amounts : Traverse(ProofOfAmount(b, a)) /\ UNCHANGED concvars

CreateProofFromBucketOfNonFungibles ==
    \E b \in BucketIds, i \in IdSets : Traverse(ProofOfIds(b, i)) /\ UNCHANGED concvars

CreateProofFromBucketOfAll ==
    \E b \in BucketIds : Traverse(ProofOfAll(b)) /\ UNCHANGED concvars

BurnResource ==
    \E b \in BucketIds : Traverse(Burn(b)) /\ UNCHANGED concvars

\* A recognised call puts at most MaxAmount of a resource on the worktop.
CallAllowed(e) ==
    e.kind = "known_put" /\ e.resources.tag = "Amount" =>
        LET cur == worktop_content_tracker.worktop_content[e.resources.resource_address] IN
        cur.tag = "Amount" => cur.amount + e.resources.amount <= MaxAmount

CallMethod ==
    \E e \in CallEffects : CallAllowed(e) /\ Traverse(MethodCall(e)) /\ UNCHANGED concvars

CallFunction ==
    \E e \in CallEffects : CallAllowed(e) /\ Traverse(FunctionCall(e)) /\ UNCHANGED concvars

CallRoyaltyMethod ==
    \E m \in RoyaltyMethods : Traverse(RoyaltyCall(m)) /\ UNCHANGED concvars

CallRoleAssignmentMethod == Traverse(RoleAssignmentCall) /\ UNCHANGED concvars

CallMetadataMethod == Traverse(MetadataCall) /\ UNCHANGED concvars

CallDirectVaultMethod == Traverse(DirectVaultCall) /\ UNCHANGED concvars

Next ==
    \/ TakeAllFromWorktop
    \/ TakeFromWorktop
    \/ TakeNonFungiblesFromWorktop
    \/ ReturnToWorktop
    \/ PureOperation
    \/ CreateProofFromBucketOfAmount
    \/ CreateProofFromBucketOfNonFungibles
    \/ CreateProofFromBucketOfAll
    \/ BurnResource
    \/ CallMethod
    \/ CallFunction
    \/ CallRoyaltyMethod
    \/ CallRoleAssignmentMethod
    \/ CallMetadataMethod
    \/ CallDirectVaultMethod

Spec == Init /\ [][Next]_vars

\* ----------------------------------------- the transaction as it executes
\* The worktop and the buckets of the transaction itself, run side by side with
\* the analysis: every resource has an entry, amounts are whole numbers, and an
\* amount of a non-fungible resource is that many of its ids.
Last(seq) == seq[Len(seq)]

Minus(a, b) ==
    IF a.tag = "Amount"
    THEN Amount(a.resource_address, a.amount - b.amount)
    ELSE Ids(a.resource_address, a.ids \ b.ids)

\* The ways to pick an amount out of a quantity.
Portions(held, amount) ==
    IF held.tag = "Amount"
    THEN IF amount <= held.amount THEN {Amount(held.resource_address, amount)} ELSE {}
    ELSE {Ids(held.resource_address, x) : x \in {y \in SUBSET held.ids : Cardinality(y) = amount}}

ExecTake(moved) ==
    [worktop |-> [conc_worktop EXCEPT ![moved.resource_address] = Minus(@, moved)],
     buckets |-> [b \in DOMAIN conc_buckets \cup {conc_next_bucket} |->
                     IF b = conc_next_bucket THEN moved ELSE conc_buckets[b]],
     next |-> conc_next_bucket + 1,
     moved |-> moved]

ExecPut(moved, buckets) ==
    [worktop |-> [conc_worktop EXCEPT ![moved.resource_address] = Merge(@, moved)],
     buckets |-> buckets, next |-> conc_next_bucket, moved |-> moved]

ExecProof(proven) ==
    [worktop |-> conc_worktop, buckets |-> conc_buckets,
     next |-> conc_next_bucket, moved |-> proven]

ExecConsume(bucket_id) ==
    [worktop |-> conc_worktop,
     buckets |-> [b \in DOMAIN conc_buckets \ {bucket_id} |-> conc_buckets[b]],
     next |-> conc_next_bucket, moved |-> conc_buckets[bucket_id]]

\* The outcomes of executing an instruction; none when the transaction fails.
Executions(i) ==
    CASE i.op = "TakeAllFromWorktop" -> {ExecTake(conc_worktop[i.resource_address])}
      [] i.op = "TakeFromWorktop" ->
           {ExecTake(m) : m \in Portions(conc_worktop[i.resource_address], i.amount)}
      [] i.op = "TakeNonFungiblesFromWorktop" ->
           IF /\ conc_worktop[i.resource_address].tag = "Ids"
              /\ i.ids \subseteq conc_worktop[i.resource_address].ids
           THEN {ExecTake(Ids(i.resource_address, i.ids))}
           ELSE {}
      [] i.op = "ReturnToWorktop" ->
           IF i.bucket_id \in DOMAIN conc_buckets
           THEN {ExecPut(conc_buckets[i.bucket_id],
                         [b \in DOMAIN conc_buckets \ {i.bucket_id} |-> conc_buckets[b]])}
           ELSE {}
      [] i.op = "CreateProofFromBucketOfAmount" ->
           IF i.bucket_id \in DOMAIN conc_buckets
           THEN {ExecProof(m) : m \in Portions(conc_buckets[i.bucket_id], i.amount)}
           ELSE {}
      [] i.op = "CreateProofFromBucketOfNonFungibles" ->
           IF /\ i.bucket_id \in DOMAIN conc_buckets
              /\ conc_buckets[i.bucket_id].tag = "Ids"
              /\ i.ids \subseteq conc_buckets[i.bucket_id].ids
           THEN {ExecProof(Ids(conc_buckets[i.bucket_id].resource_address, i.ids))}
           ELSE {}
      [] i.op \in {"CreateProofFromBucketOfAll", "BurnResource"} ->
           IF i.bucket_id \in DOMAIN conc_buckets
           THEN {ExecConsume(i.bucket_id)}
           ELSE {}
      [] i.op = "CallMethod" /\ i.effect.kind = "known_put" ->
           {ExecPut(i.effect.resources, conc_buckets)}
      [] OTHER -> {}

\* The analysis and the transaction take the same instruction.
Execute(instruction) ==
    \E x \in Executions(instruction) :
        /\ Traverse(instruction)
        /\ conc_worktop' = x.worktop
        /\ conc_buckets' = x.buckets
        /\ conc_next_bucket' = x.next
        /\ conc_moved' = x.moved

ExecWithdraw ==
    \E x \in WellFormedSpecifiers :
        LET e == [kind |-> "known_put", resources |-> x] IN
        CallAllowed(e) /\ Execute(MethodCall(e))

ExecTakeAllFromWorktop ==
    \E r \in ResourceAddresses : TRUE /\ Execute(TakeAll(r))

ExecTakeFromWorktop ==
    \E r \in ResourceAddresses, a \in Amounts : TRUE /\ Execute(TakeAmount(r, a))

ExecTakeNonFungiblesFromWorktop ==
    \E r \in ResourceAddresses, i \in IdSets : TRUE /\ Execute(TakeIds(r, i))

ExecReturnToWorktop ==
    \E b \in BucketIds : TRUE /\ Execute(Return(b))

ExecCreateProofFromBucketOfAmount ==
    \E b \in BucketIds, a \in Amounts : TRUE /\ Execute(ProofOfAmount(b, a))

ExecCreateProofFromBucketOfNonFungibles ==
    \E b \in BucketIds, i \in IdSets : TRUE /\ Execute(ProofOfIds(b, i))

ExecCreateProofFromBucketOfAll ==
    \E b \in BucketIds : TRUE /\ Execute(ProofOfAll(b))

ExecBurnResource ==
    \E b \in BucketIds : TRUE /\ Execute(Burn(b))

NextSound ==
    \/ ExecWithdraw
    \/ ExecTakeAllFromWorktop
    \/ ExecTakeFromWorktop
    \/ ExecTakeNonFungiblesFromWorktop
    \/ ExecReturnToWorktop
    \/ ExecCreateProofFromBucketOfAmount
    \/ ExecCreateProofFromBucketOfNonFungibles
    \/ ExecCreateProofFromBucketOfAll
    \/ ExecBurnResource

SpecSound == Init /\ [][NextSound]_vars

\* ================================================================ claims
Output == trusted_state_per_instruction
Pool == worktop_content_tracker.worktop_content
Buckets == bucket_tracker.buckets
WorktopTracked == ~worktop_is_untracked_mode(worktop_content_tracker)
BucketsTracked == ~bucket_is_untracked_mode(bucket_tracker)
Running == panic = "none"
\* The traverser has not failed and has another instruction to feed: the
\* states from which a claim tries every instruction that may come next.
Feeding == Running /\ instruction_index < MaxInstructions

Untrusted == TrustedWorktopInstruction(FALSE, << >>)
TrustedNoResources == TrustedWorktopInstruction(TRUE, << >>)
TrustedWith(resources) == TrustedWorktopInstruction(TRUE, << resources >>)

\* r appends exactly one verdict, v, to the output and does not panic.
Appends(r, v) == r.panic = "none" /\ r.out = Append(Output, v)

\* The bucket map of r is the current one with one more bucket, of the next
\* identifier, holding content.
Registers(r, content) ==
    /\ DOMAIN r.bt.buckets = DOMAIN Buckets \cup {bucket_tracker.next_id}
    /\ r.bt.buckets[bucket_tracker.next_id] = content
    /\ \A b \in DOMAIN Buckets : r.bt.buckets[b] = Buckets[b]
    /\ bucket_tracker.next_id \notin DOMAIN Buckets

\* ---- C1
\* C1: after every on_instruction call that returns, the output holds exactly
\* one verdict per instruction fed so far, and the length assertion at the end
\* of on_instruction never fails.
C1_OneVerdictPerInstruction ==
    /\ panic # "assertion failed"
    /\ Running => Len(Output) = instruction_index

C1_Witness ==
    /\ Running
    /\ instruction_index = 3
    /\ Len(Output) = 3
    /\ Output[1].trusted /\ Output[1].resources # << >>
    /\ ~Output[2].trusted
    /\ Output[3] = TrustedNoResources

\* ---- C2
\* C2: soundness of the trust verdict.  With the transaction executed side by
\* side, a trusted verdict carries exactly the quantity the instruction moved.
C2_SoundVerdicts ==
    (Running /\ Len(Output) > 0 /\ Last(Output).trusted)
        => Last(Output).resources = << conc_moved >>

\* ---- C3
\* C3: monotonicity.  From every reachable state, no instruction of any kind
\* takes either tracker from untracked mode back to tracked mode.
C3_Monotone ==
    Running =>
        \A i \in Instructions :
            LET r == Run(i) IN
            /\ worktop_is_untracked_mode(worktop_content_tracker)
                   => worktop_is_untracked_mode(r.wt)
            /\ bucket_is_untracked_mode(bucket_tracker)
                   => bucket_is_untracked_mode(r.bt)

\* Both trackers gave up at the direct vault call, and a later instruction has
\* been recorded as trusted.
C3_Witness ==
    /\ Running
    /\ direct_vault_index = 0
    /\ Len(Output) = 3
    /\ Output[3].trusted /\ Output[3].resources # << >>
    /\ ~WorktopTracked /\ ~BucketsTracked

\* ---- C4
\* C4: a manifest of pure proof / auth zone operations only yields trusted
\* verdicts without resources and leaves both trackers tracked and empty; and
\* from any state such an operation appends a trusted verdict without resources
\* and changes neither tracker.
C4_PureOperations ==
    /\ only_pure =>
          /\ Running
          /\ \A k \in 1..Len(Output) : Output[k] = TrustedNoResources
          /\ Len(Output) = instruction_index
          /\ worktop_content_tracker = WorktopContentTracker_default
          /\ bucket_tracker = BucketTracker_default
    /\ Running =>
          \A i \in PureInstructions :
              LET r == Run(i) IN
              /\ Appends(r, TrustedNoResources)
              /\ r.wt = worktop_content_tracker
              /\ r.bt = bucket_tracker

C4_Witness == only_pure /\ instruction_index = 3 /\ Len(Output) = 3

\* ---- C5
\* C5: round trip.  With the worktop tracked and holding q of R,
\* TakeAllFromWorktop(R) followed by ReturnToWorktop of the bucket it created
\* leaves the whole pool as it was, and the return is trusted with exactly q.
C5_RoundTrip ==
    (Running /\ WorktopTracked) =>
        \A r \in ResourceAddresses :
            Pool[r] # None =>
                LET q == Pool[r]
                    s1 == Run(TakeAll(r))
                    s2 == on_instruction(s1, Return(bucket_tracker.next_id),
                                         instruction_index + 1)
                IN  /\ s1.panic = "none"
                    /\ s1.wt.worktop_content[r] = None
                    /\ s2.panic = "none"
                    /\ ~worktop_is_untracked_mode(s2.wt)
                    /\ s2.wt.worktop_content = Pool
                    /\ s2.out = Output \o << TrustedWith(q), TrustedWith(q) >>

\* The state after a take-all of 2 XRD and the return of its bucket.
C5_Witness ==
    /\ Running /\ WorktopTracked /\ BucketsTracked
    /\ Len(Output) = 3
    /\ Output[2] = TrustedWith(Amount("XRD", 2))
    /\ Output[3] = TrustedWith(Amount("XRD", 2))
    /\ Pool["XRD"] = Amount("XRD", 2)
    /\ bucket_tracker.next_id = 1
    /\ Buckets = NoBuckets

\* ---- C6
\* C6: a CallDirectVaultMethod, from any state, puts both trackers in untracked
\* mode and records an untrusted verdict without resources; from then on the
\* verdict at its index is that verdict, both trackers are untracked, and every
\* take from and return to the worktop is untrusted.
C6_DirectVault ==
    /\ Running =>
          LET r == Run(DirectVaultCall) IN
          /\ Appends(r, Untrusted)
          /\ worktop_is_untracked_mode(r.wt)
          /\ bucket_is_untracked_mode(r.bt)
    /\ (Running /\ direct_vault_index # -1) =>
          /\ Output[direct_vault_index + 1] = Untrusted
          /\ ~WorktopTracked /\ ~BucketsTracked
          /\ \A i \in TakeInstructions \cup ReturnInstructions :
                 Appends(Run(i), Untrusted)

\* A take or return recorded after the direct vault call.
C6_Witness ==
    /\ Running
    /\ direct_vault_index = 1
    /\ Len(Output) = 3
    /\ Output[1].trusted /\ Output[1].resources # << >>
    /\ Output[3] = Untrusted

C8_TakeAllCompletes ==
    (Running /\ WorktopTracked) =>
        \A r \in ResourceAddresses :
            LET s1 == Run(TakeAll(r)) IN
            /\ s1.panic = "none"
            /\ s1.wt.worktop_content[r] = None
            /\ Len(s1.out) = Len(Output) + 1
            /\ Last(s1.out).trusted

\* ---- C9
\* C9: a TakeFromWorktop / TakeNonFungiblesFromWorktop on a tracked worktop
\* whose take_known succeeds reduces the pool entry of R by exactly the
\* requested amount / ids, leaves every other entry alone, registers a bucket
\* holding exactly the requested specifier and is trusted with that specifier.
Requested(i) ==
    IF i.op = "TakeFromWorktop" THEN Amount(i.resource_address, i.amount)
    ELSE Ids(i.resource_address, i.ids)

TakeKnownInstructions ==
    {i \in TakeInstructions : i.op # "TakeAllFromWorktop"}

C9_TakeKnownSucceeds ==
    (Running /\ WorktopTracked) =>
        \A i \in TakeKnownInstructions :
            take_from_worktop(worktop_content_tracker, Requested(i)).ok =>
                LET r == Run(i)
                    q == Requested(i)
                    held == Pool[i.resource_address]
                IN  /\ Appends(r, TrustedWith(q))
                    /\ Registers(r, q)
                    /\ ~worktop_is_untracked_mode(r.wt)
                    /\ held.tag = q.tag
                    /\ q.tag = "Amount" =>
                          /\ held.amount >= q.amount
                          /\ r.wt.worktop_content[i.resource_address] =
                                 Amount(i.resource_address, held.amount - q.amount)
                    /\ q.tag = "Ids" =>
                          /\ q.ids \subseteq held.ids
                          /\ r.wt.worktop_content[i.resource_address] =
                                 Ids(i.resource_address, held.ids \ q.ids)
                    /\ \A o \in ResourceAddresses \ {i.resource_address} :
                           r.wt.worktop_content[o] = Pool[o]

\* The state after 1 of 2 XRD was taken from the worktop.
C9_Witness ==
    /\ Running /\ WorktopTracked /\ BucketsTracked
    /\ Len(Output) = 2
    /\ Output[1] = TrustedWith(Amount("XRD", 2))
    /\ Output[2] = TrustedWith(Amount("XRD", 1))
    /\ Pool["XRD"] = Amount("XRD", 1)
    /\ Buckets = (0 :> Amount("XRD", 1))

\* ---- C10
\* C10: a TakeFromWorktop / TakeNonFungiblesFromWorktop on a tracked worktop
\* whose take_known fails is untrusted without resources, registers a bucket
\* of unknown content, and leaves the worktop tracker as it was: tracked, with
\* the same pool.
C10_TakeKnownFails ==
    (Running /\ WorktopTracked) =>
        \A i \in TakeKnownInstructions :
            ~take_from_worktop(worktop_content_tracker, Requested(i)).ok =>
                LET r == Run(i) IN
                /\ Appends(r, Untrusted)
                /\ Registers(r, None)
                /\ ~worktop_is_untracked_mode(r.wt)
                /\ r.wt.worktop_content = Pool

\* The state after an amount was taken from a pool tracked as an id set.
C10_Witness ==
    /\ Running /\ WorktopTracked /\ BucketsTracked
    /\ Len(Output) = 2
    /\ Output[1] = TrustedWith(Ids("NFT", {"#1#", "#2#"}))
    /\ Output[2] = Untrusted
    /\ Pool["NFT"] = Ids("NFT", {"#1#", "#2#"})
    /\ Buckets = (0 :> None)

\* ---- C11
\* The bucket map without bucket b.
WithoutBucket(b) == [x \in DOMAIN Buckets \ {b} |-> Buckets[x]]

C12_ReturnKnown ==
    (Running /\ BucketsTracked) =>
        \A b \in DOMAIN Buckets :
            Buckets[b] # None =>
                LET q == Buckets[b]
                    held == Pool[q.resource_address]
                    r == Run(Return(b))
                IN  /\ Appends(r, TrustedWith(q))
                    /\ r.bt.buckets = WithoutBucket(b)
                    /\ ~bucket_is_untracked_mode(r.bt)
                    /\ WorktopTracked =>
                          /\ ~worktop_is_untracked_mode(r.wt)
                          /\ r.wt.worktop_content[q.resource_address] =
                                 IF held = None THEN q ELSE Merge(held, q)
                          /\ \A o \in ResourceAddresses \ {q.resource_address} :
                                 r.wt.worktop_content[o] = Pool[o]
                    /\ ~WorktopTracked => r.wt = worktop_content_tracker

\* 1 of 2 XRD was taken into a bucket and the bucket was returned.
C12_Witness ==
    /\ Running /\ WorktopTracked /\ BucketsTracked
    /\ Len(Output) = 3
    /\ Output[2] = TrustedWith(Amount("XRD", 1))
    /\ Output[3] = TrustedWith(Amount("XRD", 1))
    /\ Pool["XRD"] = Amount("XRD", 2)
    /\ Buckets = NoBuckets
    /\ bucket_tracker.next_id = 1

\* ---- C13
\* C13: ReturnToWorktop of a bucket that exists with unknown content, or of any
\* bucket while the bucket tracker is in untracked mode, puts the worktop
\* tracker in untracked mode and is untrusted without resources; the mode of
\* the bucket tracker is the same before and after.
C13_ReturnUnknown ==
    Running =>
        \A b \in BucketIds :
            (\/ ~BucketsTracked
             \/ (b \in DOMAIN Buckets /\ Buckets[b] = None)) =>
                LET r == Run(Return(b)) IN
                /\ Appends(r, Untrusted)
                /\ worktop_is_untracked_mode(r.wt)
                /\ bucket_is_untracked_mode(r.bt) = bucket_is_untracked_mode(bucket_tracker)
                /\ BucketsTracked => r.bt.buckets = WithoutBucket(b)
                /\ ~BucketsTracked => r.bt = bucket_tracker

\* A failed take on a fresh worktop made a bucket of unknown content, and its
\* return made the worktop untracked while the bucket tracker still tracks.
C13_Witness ==
    /\ Running /\ ~WorktopTracked /\ BucketsTracked
    /\ Len(Output) = 2
    /\ Output[1] = Untrusted
    /\ Output[2] = Untrusted
    /\ Buckets = NoBuckets
    /\ bucket_tracker.next_id = 1

\* ---- C14
\* What try_consume_* answers for a proof instruction in the current state.
Proven(i) ==
    IF i.op = "CreateProofFromBucketOfAmount"
    THEN try_consume_fungible_from_bucket(bucket_tracker, i.bucket_id, i.amount)
    ELSE try_consume_non_fungible_from_bucket(bucket_tracker, i.bucket_id, i.ids)

\* C14: CreateProofFromBucketOfAmount and CreateProofFromBucketOfNonFungibles
\* of a bucket in the map (or under an untracked bucket tracker) are trusted
\* with the partial specifier when try_consume_* succeeds and untrusted without
\* resources otherwise; either way the bucket tracker, with the bucket and its
\* recorded content, and the worktop tracker, with its pool and mode, are as
\* they were.
C14_PartialProofKeepsBucket ==
    Running =>
        \A i \in ProofFromBucketInstructions :
            (~BucketsTracked \/ i.bucket_id \in DOMAIN Buckets) =>
                LET r == Run(i)
                    c == Proven(i)
                IN  /\ c.found
                    /\ IF c.res # None
                       THEN /\ Appends(r, TrustedWith(c.res))
                            /\ c.res.resource_address = Buckets[i.bucket_id].resource_address
                            /\ i.op = "CreateProofFromBucketOfAmount" =>
                                   c.res = Amount(c.res.resource_address, i.amount)
                            /\ i.op = "CreateProofFromBucketOfNonFungibles" =>
                                   c.res = Ids(c.res.resource_address, i.ids)
                       ELSE Appends(r, Untrusted)
                    /\ r.bt = bucket_tracker
                    /\ r.wt = worktop_content_tracker

\* A proof of 1 XRD out of a bucket of 2 XRD; the bucket still holds 2 XRD.
C14_Witness ==
    /\ Running /\ BucketsTracked
    /\ Len(Output) = 3
    /\ Output[2] = TrustedWith(Amount("XRD", 2))
    /\ Output[3] = TrustedWith(Amount("XRD", 1))
    /\ Buckets = (0 :> Amount("XRD", 2))

\* ---- C15
\* C15: partial proofs are not cumulative.  For a bucket b recorded with
\* amount A of R, two successive CreateProofFromBucketOfAmount(b, a1) and
\* (b, a2) with a1, a2 <= A are each trusted with {R, a1} and {R, a2}, also
\* when a1 + a2 > A; the bucket tracker is unchanged by them, and a following
\* ReturnToWorktop(b) or BurnResource(b) reports the full A.
C15_ProofsNotCumulative ==
    (Running /\ BucketsTracked) =>
        \A b \in DOMAIN Buckets :
            Buckets[b].tag = "Amount" =>
                LET held == Buckets[b]
                    R == held.resource_address
                IN  \A a1 \in 0..held.amount, a2 \in 0..held.amount :
                        LET s1 == Run(ProofOfAmount(b, a1))
                            s2 == on_instruction(s1, ProofOfAmount(b, a2),
                                                 instruction_index + 1)
                        IN  /\ s2.panic = "none"
                            /\ s2.out = Output \o << TrustedWith(Amount(R, a1)),
                                                     TrustedWith(Amount(R, a2)) >>
                            /\ s1.bt = bucket_tracker
                            /\ s2.bt = bucket_tracker
                            /\ \A i \in {Return(b), Burn(b)} :
                                   LET s3 == on_instruction(s2, i, instruction_index + 2) IN
                                   /\ s3.panic = "none"
                                   /\ Last(s3.out) = TrustedWith(held)

\* A proof of all 2 XRD of a bucket; the bucket is still recorded with 2 XRD.
C15_Witness ==
    /\ Running /\ BucketsTracked
    /\ Len(Output) = 3
    /\ Output[2] = TrustedWith(Amount("XRD", 2))
    /\ Output[3] = TrustedWith(Amount("XRD", 2))
    /\ Buckets = (0 :> Amount("XRD", 2))

\* ---- C16
\* C16: with the bucket tracker tracked, CreateProofFromBucketOfAll(b) and
\* BurnResource(b) of a bucket in the map remove b from the map, are trusted
\* exactly when the content of b was known, with exactly that content as
\* resources and no resources otherwise, and leave the worktop tracker, pool
\* and mode, as it was.
C16_ConsumeBucket ==
    (Running /\ BucketsTracked) =>
        \A b \in DOMAIN Buckets :
            \A i \in {ProofOfAll(b), Burn(b)} :
                LET r == Run(i) IN
                /\ Appends(r, IF Buckets[b] # None THEN TrustedWith(Buckets[b])
                              ELSE Untrusted)
                /\ r.bt.buckets = WithoutBucket(b)
                /\ ~bucket_is_untracked_mode(r.bt)
                /\ r.bt.next_id = bucket_tracker.next_id
                /\ r.wt = worktop_content_tracker

\* A bucket of 2 XRD was taken from the worktop and consumed.
C16_Witness ==
    /\ Running /\ WorktopTracked /\ BucketsTracked
    /\ Len(Output) = 3
    /\ Output[2] = TrustedWith(Amount("XRD", 2))
    /\ Output[3] = TrustedWith(Amount("XRD", 2))
    /\ Pool["XRD"] = None
    /\ Buckets = NoBuckets
    /\ bucket_tracker.next_id = 1

\* ---- C17
\* The three instructions that consume bucket b.
ConsumersOf(b) == {Return(b), ProofOfAll(b), Burn(b)}

ConsumerOperations == {"ReturnToWorktop", "CreateProofFromBucketOfAll", "BurnResource"}

\* The identifiers that were given to a bucket and are no longer in the map.
ConsumedBuckets == (0..(bucket_tracker.next_id - 1)) \ DOMAIN Buckets

C19_MetadataAndRoleAssignment ==
    Running =>
        \A i \in {MetadataCall, RoleAssignmentCall} :
            LET r == Run(i) IN
            /\ Appends(r, TrustedNoResources)
            /\ r.wt = worktop_content_tracker
            /\ r.bt = bucket_tracker

\* A trusted verdict without resources recorded while a known bucket is held.
C19_Witness ==
    /\ Running /\ WorktopTracked /\ BucketsTracked
    /\ Len(Output) = 3
    /\ Output[2] = TrustedWith(Ids("NFT", {"#1#"}))
    /\ Output[3] = TrustedNoResources
    /\ Buckets = (0 :> Ids("NFT", {"#1#"}))

\* ---- C20
\* C20: from every state and for every method name, CallRoyaltyMethod is
\* trusted without resources and leaves the worktop tracker (pool and mode)
\* and the bucket tracker (map and mode) as they were.
C20_Royalty ==
    Running =>
        \A m \in RoyaltyMethods :
            LET r == Run(RoyaltyCall(m)) IN
            /\ Appends(r, TrustedNoResources)
            /\ r.wt = worktop_content_tracker
            /\ r.bt = bucket_tracker

\* A trusted verdict without resources recorded on an untracked worktop.
C20_Witness ==
    /\ Running /\ ~WorktopTracked /\ BucketsTracked
    /\ Len(Output) = 2
    /\ Output[1] = Untrusted
    /\ Output[2] = TrustedNoResources
    /\ Buckets = NoBuckets
    /\ bucket_tracker.next_id = 0

\* ---- C21
\* A call that is not in the table of recognised calls.
Unrecognized == [kind |-> "unrecognized"]

\* r adds no bucket of known content to the bucket map.
AddsNoKnownBucket(before, after) ==
    \A b \in DOMAIN after.buckets :
        b \notin DOMAIN before.buckets => after.buckets[b] = None

\* C21: from every state, a CallMethod or CallFunction that is not recognised
\* is untrusted without resources and leaves the worktop tracker in untracked
\* mode; every take from the worktop that follows is untrusted without
\* resources, hands its bucket to the bucket tracker as a bucket of unknown
\* content, and leaves the worktop untracked; and whenever the worktop is
\* untracked, every take is untrusted.
C21_UnrecognizedCall ==
    /\ Feeding =>
          \A i \in {MethodCall(Unrecognized), FunctionCall(Unrecognized)} :
              LET r == Run(i) IN
              /\ Appends(r, Untrusted)
              /\ worktop_is_untracked_mode(r.wt)
              /\ \A t \in TakeInstructions :
                     LET s2 == on_instruction(r, t, instruction_index + 1) IN
                     /\ s2.panic = "none"
                     /\ s2.out = Append(r.out, Untrusted)
                     /\ s2.bt = new_bucket_unknown_resources(r.bt)
                     /\ AddsNoKnownBucket(r.bt, s2.bt)
                     /\ worktop_is_untracked_mode(s2.wt)
    /\ (Running /\ ~WorktopTracked) =>
          \A t \in TakeInstructions :
              LET r == Run(t) IN
              /\ Appends(r, Untrusted)
              /\ AddsNoKnownBucket(bucket_tracker, r.bt)

\* A take recorded after a call that was not recognised: both trackers gave up
\* without a direct vault call.
C21_Witness ==
    /\ Running /\ ~WorktopTracked /\ ~BucketsTracked
    /\ direct_vault_index = -1
    /\ Len(Output) = 3
    /\ Output[1].trusted /\ Output[1].resources # << >>
    /\ Output[2] = Untrusted
    /\ Output[3] = Untrusted

\* ---- C23
\* C23: on a freshly constructed analysis, TakeFromWorktop(R, amount) of any
\* resource and any positive amount is untrusted without resources, registers
\* bucket 0 with unknown content and leaves the worktop tracker as it was,
\* tracked and empty; a following CreateProofFromBucketOfAll of bucket 0 is
\* untrusted without resources and removes the bucket from the map.
C23_FreshTakeThenProof ==
    State = TrustedWorktop_default =>
        \A r \in ResourceAddresses, a \in Amounts \ {0} :
            LET s1 == Run(TakeAmount(r, a))
                s2 == on_instruction(s1, ProofOfAll(0), instruction_index + 1)
            IN  /\ s1.panic = "none"
                /\ s1.out = << Untrusted >>
                /\ s1.bt.buckets = (0 :> None)
                /\ ~bucket_is_untracked_mode(s1.bt)
                /\ s1.wt = WorktopContentTracker_default
                /\ s2.panic = "none"
                /\ s2.out = << Untrusted, Untrusted >>
                /\ s2.bt.buckets = NoBuckets
                /\ ~bucket_is_untracked_mode(s2.bt)
                /\ s2.wt = WorktopContentTracker_default

\* The state after the failed take and the proof of its bucket.
C23_Witness ==
    /\ Running /\ WorktopTracked /\ BucketsTracked
    /\ instruction_index = 2
    /\ Output = << Untrusted, Untrusted >>
    /\ worktop_content_tracker = WorktopContentTracker_default
    /\ Buckets = NoBuckets
    /\ bucket_tracker.next_id = 1

\* ---- C24
\* The instructions that are not generic or royalty calls.
PlainInstructions ==
    TakeInstructions \cup ReturnInstructions \cup PureInstructions
      \cup ProofFromBucketInstructions \cup ConsumeInstructions
      \cup {MetadataCall, RoleAssignmentCall, DirectVaultCall}

\* A specifier of a non-empty quantity.
NonEmptyQuantity(x) ==
    IF x.tag = "Amount" THEN x.amount > 0 ELSE x.ids # {}

\* An untrusted verdict has no resources, a trusted one at most one specifier,
\* and that specifier is of a non-empty quantity.
WellFormedVerdict(v) ==
    /\ ~v.trusted => v.resources = << >>
    /\ Len(v.resources) <= 1
    /\ \A k \in 1..Len(v.resources) : NonEmptyQuantity(v.resources[k])

\* C24: from every state, the verdict of every take, return, proof from a
\* bucket, burn, pure operation, metadata, role assignment and direct vault
\* instruction has no resources when untrusted, at most one specifier when
\* trusted, and never a specifier of a zero amount or an empty id set.
C24_NoEmptySpecifier ==
    Running =>
        \A i \in PlainInstructions :
            LET r == Run(i) IN
            r.panic = "none" => WellFormedVerdict(Last(r.out))

\* ---- C25
\* C25: on a tracked worktop, TakeFromWorktop(R, a) is trusted exactly when the
\* pool entry of R is an amount of at least a; it then reduces that amount by
\* exactly a, and otherwise leaves the pool alone; and no pooled amount is ever
\* negative.
C25_TakeAmount ==
    /\ (Running /\ WorktopTracked) =>
          \A R \in ResourceAddresses, a \in Amounts :
              LET r == Run(TakeAmount(R, a))
                  held == Pool[R]
                  enough == held.tag = "Amount" /\ held.amount >= a
              IN  /\ r.panic = "none"
                  /\ Last(r.out).trusted <=> enough
                  /\ enough =>
                        /\ r.wt.worktop_content[R] = Amount(R, held.amount - a)
                        /\ r.wt.worktop_content[R].amount >= 0
                        /\ Last(r.out) = TrustedWith(Amount(R, a))
                  /\ ~enough => r.wt = worktop_content_tracker
    /\ \A R \in ResourceAddresses :
           Pool[R].tag = "Amount" => Pool[R].amount >= 0

\* All 2 XRD of the pool were taken: the pooled amount is 0.
C25_Witness ==
    /\ Running /\ WorktopTracked /\ BucketsTracked
    /\ Len(Output) = 2
    /\ Output[1] = TrustedWith(Amount("XRD", 2))
    /\ Output[2] = TrustedWith(Amount("XRD", 2))
    /\ Pool["XRD"] = Amount("XRD", 0)
    /\ Buckets = (0 :> Amount("XRD", 2))

\* ---- C26
\* C26: on a tracked worktop, TakeNonFungiblesFromWorktop(R, ids) is trusted
\* exactly when the pool entry of R is an id set that holds every requested
\* id; it then removes exactly those ids and keeps the others, and when an id
\* is missing it removes nothing.
C26_TakeIds ==
    (Running /\ WorktopTracked) =>
        \A R \in ResourceAddresses, ids \in IdSets :
            LET r == Run(TakeIds(R, ids))
                held == Pool[R]
                present == held.tag = "Ids" /\ ids \subseteq held.ids
            IN  /\ r.panic = "none"
                /\ Last(r.out).trusted <=> present
                /\ present =>
                      /\ r.wt.worktop_content[R] = Ids(R, held.ids \ ids)
                      /\ Last(r.out) = TrustedWith(Ids(R, ids))
                      /\ r.bt.buckets[bucket_tracker.next_id] = Ids(R, ids)
                /\ ~present =>
                      /\ r.wt = worktop_content_tracker
                      /\ Last(r.out) = Untrusted

\* Id #1# was taken out of a pool of #1# and #2#: #2# remains.
C26_Witness ==
    /\ Running /\ WorktopTracked /\ BucketsTracked
    /\ Len(Output) = 2
    /\ Output[1] = TrustedWith(Ids("NFT", {"#1#", "#2#"}))
    /\ Output[2] = TrustedWith(Ids("NFT", {"#1#"}))
    /\ Pool["NFT"] = Ids("NFT", {"#2#"})
    /\ Buckets = (0 :> Ids("NFT", {"#1#"}))

\* ---- C27
\* A recognised call that puts x on the worktop.
Put(x) == MethodCall([kind |-> "known_put", resources |-> x])

\* What the pool holds of a resource once x and y were put on top of held.
Reconciled(held, x, y) ==
    IF held = None THEN Merge(x, y) ELSE Merge(Merge(held, x), y)

\* The quantities that can be taken out of a pool entry, as take instructions.
TakesOutOf(total) ==
    IF total.tag = "Amount"
    THEN {TakeAmount(total.resource_address, c) : c \in 0..total.amount}
    ELSE {TakeIds(total.resource_address, c) : c \in SUBSET total.ids}

\* In state s2 the worktop is tracked and holds total for its resource.
HoldsIn(s2, total) ==
    /\ s2.panic = "none"
    /\ ~worktop_is_untracked_mode(s2.wt)
    /\ s2.wt.worktop_content[total.resource_address] = total

\* C27: on a tracked worktop, two puts of the same resource R, by recognised
\* calls or by returning two buckets of known content, make the pool hold the
\* sum of the amounts (the union of the id sets) together with what it held of
\* R; and whatever the pool holds of R, a take of any part of it is trusted
\* with that part and a TakeAllFromWorktop(R) after it returns exactly the
\* remainder.
C27_PutsReconcile ==
    (Running /\ WorktopTracked) =>
        /\ Feeding =>
           \A x \in WellFormedSpecifiers, y \in WellFormedSpecifiers :
               x.resource_address = y.resource_address =>
                   LET s1 == Run(Put(x))
                       s2 == on_instruction(s1, Put(y), instruction_index + 1)
                   IN  HoldsIn(s2, Reconciled(Pool[x.resource_address], x, y))
        /\ BucketsTracked =>
               \A b1 \in DOMAIN Buckets, b2 \in DOMAIN Buckets :
                   (/\ b1 # b2
                    /\ Buckets[b1] # None /\ Buckets[b2] # None
                    /\ Buckets[b1].resource_address = Buckets[b2].resource_address) =>
                       LET x == Buckets[b1]
                           y == Buckets[b2]
                           s1 == Run(Return(b1))
                           s2 == on_instruction(s1, Return(b2), instruction_index + 1)
                       IN  HoldsIn(s2, Reconciled(Pool[x.resource_address], x, y))
        /\ Feeding =>
           \A R \in ResourceAddresses :
               Pool[R] # None =>
                   \A t \in TakesOutOf(Pool[R]) :
                       LET s3 == Run(t)
                           s4 == on_instruction(s3, TakeAll(R), instruction_index + 1)
                       IN  /\ s3.panic = "none"
                           /\ Last(s3.out) = TrustedWith(Requested(t))
                           /\ s4.panic = "none"
                           /\ Last(s4.out) = TrustedWith(Minus(Pool[R], Requested(t)))

\* Two puts of 1 XRD, then a trusted take of 2 XRD.
C27_Witness ==
    /\ Running /\ WorktopTracked /\ BucketsTracked
    /\ Len(Output) = 3
    /\ Output[1] = TrustedWith(Amount("XRD", 1))
    /\ Output[2] = TrustedWith(Amount("XRD", 1))
    /\ Output[3] = TrustedWith(Amount("XRD", 2))
    /\ Pool["XRD"] = Amount("XRD", 0)
    /\ Buckets = (0 :> Amount("XRD", 2))

\* ---- C28
\* C28: CreateProofFromBucketOfAmount(b, a) is trusted exactly when the bucket
\* tracker is tracked and b is in the map with an amount of at least a as its
\* known content; CreateProofFromBucketOfNonFungibles(b, ids) exactly when the
\* bucket tracker is tracked and b is in the map with an id set that holds
\* ids.  A trusted proof carries the resource address of b and exactly the
\* requested amount / ids.
C28_TryConsume ==
    Running =>
        \A i \in ProofFromBucketInstructions :
            LET r == Run(i)
                b == i.bucket_id
                succeeds == r.panic = "none" /\ Last(r.out).trusted
                known == BucketsTracked /\ b \in DOMAIN Buckets /\ Buckets[b] # None
            IN  IF i.op = "CreateProofFromBucketOfAmount"
                THEN /\ succeeds <=>
                            (known /\ Buckets[b].tag = "Amount"
                                   /\ i.amount <= Buckets[b].amount)
                     /\ succeeds =>
                            Last(r.out) =
                                TrustedWith(Amount(Buckets[b].resource_address, i.amount))
                ELSE /\ succeeds <=>
                            (known /\ Buckets[b].tag = "Ids"
                                   /\ i.ids \subseteq Buckets[b].ids)
                     /\ succeeds =>
                            Last(r.out) =
                                TrustedWith(Ids(Buckets[b].resource_address, i.ids))

\* A proof of an amount from a bucket of ids was recorded untrusted.
C28_Witness ==
    /\ Running /\ BucketsTracked
    /\ Len(Output) = 3
    /\ Output[2] = TrustedWith(Ids("NFT", {"#1#", "#2#"}))
    /\ Output[3] = Untrusted
    /\ Buckets = (0 :> Ids("NFT", {"#1#", "#2#"}))
    /\ bucket_tracker.next_id = 1

\* ---- C29
\* ReturnToWorktop of a bucket whose content the bucket tracker does not know.
ReturnsUnknown(i) ==
    /\ i.op = "ReturnToWorktop"
    /\ \/ ~BucketsTracked
       \/ (i.bucket_id \in DOMAIN Buckets /\ Buckets[i.bucket_id] = None)

C30_UnknownBucketCoexists ==
    (Feeding /\ BucketsTracked) =>
        \A t \in TakeInstructions :
            LET r == Run(t) IN
            (r.panic = "none" /\ ~Last(r.out).trusted) =>
                /\ ~bucket_is_untracked_mode(r.bt)
                /\ Registers(r, None)
                /\ \A b \in DOMAIN Buckets :
                       Buckets[b] # None =>
                           \A i \in {Return(b), Burn(b)} :
                               LET s2 == on_instruction(r, i, instruction_index + 1) IN
                               /\ s2.panic = "none"
                               /\ Last(s2.out) = TrustedWith(Buckets[b])

\* A bucket of 2 XRD and, registered after it by a failed take, a bucket of
\* unknown content.
C30_Witness ==
    /\ Running /\ WorktopTracked /\ BucketsTracked
    /\ Len(Output) = 3
    /\ Output[2] = TrustedWith(Amount("XRD", 2))
    /\ Output[3] = Untrusted
    /\ Buckets = (0 :> Amount("XRD", 2)) @@ (1 :> None)

\* ---- C31
\* C31: verdicts are write-once.  No on_instruction call changes or removes a
\* verdict that is already in the output: the output after the call is the
\* output before it, followed by what the call appended.
C31_WriteOnce ==
    [][/\ Len(trusted_state_per_instruction') >= Len(Output)
       /\ SubSeq(trusted_state_per_instruction', 1, Len(Output)) = Output]_vars

\* A trusted verdict with resources at index 0 is still there after an
\* untrusted and a trusted verdict were appended behind it.
C31_Witness ==
    /\ Running
    /\ Len(Output) = 3
    /\ Output[1] = TrustedWith(Amount("XRD", 2))
    /\ Output[2] = Untrusted
    /\ Output[3] = TrustedWith(Amount("XRD", 1))
    /\ ~WorktopTracked

\* ---- C32
\* The instructions that put to or take from the worktop.
WorktopOperations ==
    TakeInstructions \cup ReturnInstructions
      \cup {MethodCall(e) : e \in CallEffects} \cup {FunctionCall(e) : e \in CallEffects}

\* The instructions that register, read or remove a bucket.
BucketOperations ==
    TakeInstructions \cup ReturnInstructions \cup ProofFromBucketInstructions
      \cup ConsumeInstructions

\* C32: entering untracked mode is idempotent.  A second CallDirectVaultMethod
\* leaves both trackers as the first one left them; on a tracker that is
\* already untracked, a CallDirectVaultMethod or an untrusted ReturnToWorktop
\* leaves the tracker exactly as it is; and while a tracker is untracked, no
\* instruction that puts to or takes from it changes anything in it.
C32_Idempotent ==
    Running =>
        /\ LET s1 == Run(DirectVaultCall)
               s2 == on_instruction(s1, DirectVaultCall, instruction_index + 1)
           IN  /\ s2.panic = "none"
               /\ s2.wt = s1.wt
               /\ s2.bt = s1.bt
        /\ ~WorktopTracked =>
               /\ Run(DirectVaultCall).wt = worktop_content_tracker
               /\ \A i \in WorktopOperations :
                      LET r == Run(i) IN
                      /\ r.wt = worktop_content_tracker
                      /\ ReturnsUnknown(i) => Appends(r, Untrusted)
        /\ ~BucketsTracked =>
               /\ Run(DirectVaultCall).bt = bucket_tracker
               /\ \A i \in BucketOperations : Run(i).bt = bucket_tracker

\* Two direct vault calls in a row, on trackers that stay as the first call
\* left them.
C32_Witness ==
    /\ Running
    /\ direct_vault_index = 0
    /\ Output = << Untrusted, Untrusted >>
    /\ worktop_content_tracker = worktop_enter_untracked_mode(WorktopContentTracker_default)
    /\ bucket_tracker = bucket_enter_untracked_mode(BucketTracker_default)

\* ---- C33
\* What is counted of a resource: the amount of a fungible resource, and each
\* id of a non-fungible one.
Units(R) == IF R \in FungibleAddresses THEN {"amount"} ELSE NonFungibleLocalIds

\* How much of unit k of resource R the specifier x holds.
Quantity(x, R, k) ==
    IF x.tag = "Amount" /\ x.resource_address = R /\ k = "amount" THEN x.amount
    ELSE IF x.tag = "Ids" /\ x.resource_address = R /\ k \in x.ids THEN 1
    ELSE 0

RECURSIVE InBuckets(_, _, _, _)
\* How much of unit k of R the live buckets with an identifier up to b hold
\* with known content.
InBuckets(buckets, b, R, k) ==
    IF b < 0 THEN 0
    ELSE (IF b \in DOMAIN buckets THEN Quantity(buckets[b], R, k) ELSE 0)
             + InBuckets(buckets, b - 1, R, k)

\* The pooled quantity of R plus the quantity of R in live known buckets.
Total(s, R, k) ==
    Quantity(s.wt.worktop_content[R], R, k)
      + InBuckets(s.bt.buckets, s.bt.next_id - 1, R, k)

\* Each non-fungible id is recorded in at most one place.
IdsHeldOnce ==
    \A R \in ResourceAddresses, n \in NonFungibleLocalIds : Total(State, R, n) <= 1

\* The names of the take instructions and of the partial proof instructions.
TakeOperations ==
    {"TakeAllFromWorktop", "TakeFromWorktop", "TakeNonFungiblesFromWorktop"}

PartialProofOperations ==
    {"CreateProofFromBucketOfAmount", "CreateProofFromBucketOfNonFungibles"}

\* The totals of the current state.
Totals == [R \in ResourceAddresses |-> [k \in Units(R) |-> Total(State, R, k)]]

\* The instruction i conserves the total of every resource as the claim says,
\* totals being the totals before it.
Conserves(i, totals) ==
    \A r \in {Run(i)} :
        r.panic = "none" =>
            \A R \in ResourceAddresses : \A k \in Units(R) :
                \A before \in {totals[R][k]}, after \in {Total(r, R, k)} :
                /\ after <= before
                /\ (i.op \in TakeOperations \cup {"ReturnToWorktop"} /\ Last(r.out).trusted)
                       => after = before
                /\ i.op \in PartialProofOperations => after = before
                /\ i.op \in {"CreateProofFromBucketOfAll", "BurnResource"}
                       => after = before - Quantity(Buckets[i.bucket_id], R, k)

\* C33 as stated: with both trackers tracked, every trusted take and return
\* and every partial proof leaves the pooled quantity plus the quantity in live
\* known buckets unchanged for every resource, BurnResource and
\* CreateProofFromBucketOfAll lower it by exactly the content of the bucket,
\* and none of these instructions raises it.
C33_Conserved ==
    (Running /\ WorktopTracked /\ BucketsTracked) =>
        \A totals \in {Totals} :
            \A i \in BucketOperations : Conserves(i, totals)

\* C33: the same, for the states in which no non-fungible id is recorded in
\* more than one place among the pool and the live known buckets.
C33_ConservedIdsHeldOnce ==
    (Running /\ WorktopTracked /\ BucketsTracked /\ IdsHeldOnce) =>
        \A totals \in {Totals} :
            \A i \in BucketOperations : Conserves(i, totals)

\* Of 2 XRD put on the worktop, 1 was taken into a bucket and burnt: the pool
\* holds the other one and no bucket is left.
C33_Witness ==
    /\ Running /\ WorktopTracked /\ BucketsTracked
    /\ Output = << TrustedWith(Amount("XRD", 2)), TrustedWith(Amount("XRD", 1)),
                   TrustedWith(Amount("XRD", 1)) >>
    /\ Pool["XRD"] = Amount("XRD", 1)
    /\ Buckets = NoBuckets

\* ---- C34
\* C34: the content of a known bucket is stable.  With the bucket tracker
\* tracked, a trusted take records its verdict's specifier as the content of
\* its bucket, and consuming that bucket right away reports that specifier; no
\* instruction that leaves the bucket tracker tracked and the bucket alive
\* changes the recorded content of a known bucket; and the ReturnToWorktop,
\* BurnResource or CreateProofFromBucketOfAll that consumes a known bucket is
\* trusted with the recorded content.
C34_KnownContentStable ==
    (Feeding /\ BucketsTracked) =>
        /\ \A t \in TakeInstructions :
               \A s1 \in {Run(t)}, b \in {bucket_tracker.next_id} :
                   (s1.panic = "none" /\ Last(s1.out).trusted) =>
                       /\ Len(Last(s1.out).resources) = 1
                       /\ s1.bt.buckets[b] = Last(s1.out).resources[1]
                       /\ \A c \in ConsumersOf(b) :
                              \A s2 \in {on_instruction(s1, c, instruction_index + 1)} :
                                  /\ s2.panic = "none"
                                  /\ Last(s2.out) = Last(s1.out)
        /\ \A i \in Instructions :
               \A r \in {Run(i)} :
               \A b \in DOMAIN Buckets :
                   Buckets[b] # None =>
                       /\ (/\ r.panic = "none"
                           /\ ~bucket_is_untracked_mode(r.bt)
                           /\ b \in DOMAIN r.bt.buckets)
                              => r.bt.buckets[b] = Buckets[b]
                       /\ (i.op \in ConsumerOperations /\ i.bucket_id = b)
                              => Appends(r, TrustedWith(Buckets[b]))

\* A bucket taken with both ids still holds both after a proof of one of them.
C34_Witness ==
    /\ Running /\ BucketsTracked
    /\ Len(Output) = 3
    /\ Output[2] = TrustedWith(Ids("NFT", {"#1#", "#2#"}))
    /\ Output[3] = TrustedWith(Ids("NFT", {"#1#"}))
    /\ Buckets = (0 :> Ids("NFT", {"#1#", "#2#"}))

\* ---- C35
\* C35: bucket numbering.  With the bucket tracker tracked, the identifiers in
\* use lie below the next identifier; every TakeAllFromWorktop, TakeFromWorktop
\* and TakeNonFungiblesFromWorktop that returns, whether trusted, failed or on
\* an untracked worktop, registers exactly one bucket, under the next
\* identifier, and moves the next identifier up by one; and no return, proof,
\* burn or pure operation adds a bucket or moves the next identifier.
C35_BucketNumbering ==
    /\ (Running /\ BucketsTracked) =>
           \A b \in DOMAIN Buckets : b \in 0..(bucket_tracker.next_id - 1)
    /\ (Feeding /\ BucketsTracked) =>
        /\ \A t \in TakeInstructions :
               LET r == Run(t) IN
               r.panic = "none" =>
                   /\ ~bucket_is_untracked_mode(r.bt)
                   /\ DOMAIN r.bt.buckets = DOMAIN Buckets \cup {bucket_tracker.next_id}
                   /\ bucket_tracker.next_id \notin DOMAIN Buckets
                   /\ r.bt.next_id = bucket_tracker.next_id + 1
        /\ \A i \in ReturnInstructions \cup ProofFromBucketInstructions
                      \cup ConsumeInstructions \cup PureInstructions :
               LET r == Run(i) IN
               r.panic = "none" =>
                   /\ ~bucket_is_untracked_mode(r.bt)
                   /\ DOMAIN r.bt.buckets \subseteq DOMAIN Buckets
                   /\ r.bt.next_id = bucket_tracker.next_id

\* Two takes failed and registered buckets 0 and 1; bucket 0 was then consumed,
\* and bucket 1 keeps its identifier.
C35_Witness ==
    /\ Running /\ BucketsTracked /\ WorktopTracked
    /\ Len(Output) = 3
    /\ Output[1] = Untrusted
    /\ Output[2] = Untrusted
    /\ Output[3] = Untrusted
    /\ DOMAIN Buckets = {1}
    /\ bucket_tracker.next_id = 2

\* ---- C36
\* C36: with the bucket tracker in untracked mode, ReturnToWorktop,
\* BurnResource, CreateProofFromBucketOfAll, CreateProofFromBucketOfAmount and
\* CreateProofFromBucketOfNonFungibles of any bucket identifier return without
\* a lookup failure and record an untrusted verdict without resources.
C36_NoLookupWhenUntracked ==
    (Running /\ ~BucketsTracked) =>
        \A i \in ReturnInstructions \cup ConsumeInstructions
                   \cup ProofFromBucketInstructions :
            Appends(Run(i), Untrusted)

\* A bucket was taken, a direct vault call made the bucket tracker give up, and
\* the instruction after it was recorded as untrusted.
C36_Witness ==
    /\ Running /\ ~BucketsTracked
    /\ direct_vault_index = 1
    /\ Len(Output) = 3
    /\ Output[1] = Untrusted
    /\ Output[3] = Untrusted

\* ---- C37
\* The instructions that consume bucket b or create a proof from it.
OperationsOn(b) ==
    ConsumersOf(b) \cup {ProofOfAmount(b, a) : a \in Amounts}
      \cup {ProofOfIds(b, i) : i \in IdSets}

\* C37: loss of precision propagates through buckets.  On an untracked worktop
\* every take is untrusted and, while the bucket tracker is tracked, registers
\* its bucket with unknown content, and every return, burn or proof applied to
\* that bucket right after is untrusted without resources; a bucket of
\* unknown content stays of unknown content as long as it is alive and the
\* bucket tracker is tracked, and every return, burn or proof applied to it
\* is untrusted without resources; a bucket of known content, which can only
\* date from before the worktop gave up, is still consumed with a trusted
\* verdict on an untracked worktop.
C37_PrecisionLossPropagates ==
    /\ (Feeding /\ ~WorktopTracked) =>
           \A t \in TakeInstructions :
               \A s1 \in {Run(t)}, b \in {bucket_tracker.next_id} :
                   /\ Appends(s1, Untrusted)
                   /\ BucketsTracked => Registers(s1, None)
                   /\ \A c \in OperationsOn(b) :
                          \A s2 \in {on_instruction(s1, c, instruction_index + 1)} :
                              /\ s2.panic = "none"
                              /\ s2.out = Append(s1.out, Untrusted)
    /\ (Feeding /\ BucketsTracked) =>
           \A i \in Instructions :
               \A r \in {Run(i)} :
               \A b \in DOMAIN Buckets :
                   Buckets[b] = None =>
                       /\ (/\ r.panic = "none"
                           /\ ~bucket_is_untracked_mode(r.bt)
                           /\ b \in DOMAIN r.bt.buckets)
                              => r.bt.buckets[b] = None
                       /\ (/\ i.op \in ConsumerOperations \cup PartialProofOperations
                           /\ i.bucket_id = b)
                              => Appends(r, Untrusted)
    /\ (Running /\ BucketsTracked /\ ~WorktopTracked) =>
           \A b \in DOMAIN Buckets :
               Buckets[b] # None =>
                   \A c \in ConsumersOf(b) : Appends(Run(c), TrustedWith(Buckets[b]))

\* A call put an unknown quantity on the worktop; the take after it registered
\* bucket 0 with unknown content, and consuming that bucket was untrusted.
C37_Witness ==
    /\ Running /\ ~WorktopTracked /\ BucketsTracked
    /\ Output = << Untrusted, Untrusted, Untrusted >>
    /\ Buckets = NoBuckets
    /\ bucket_tracker.next_id = 1

\* ---- C38
\* C38: a take of resource R that returns leaves the mode of the worktop
\* tracker and the pool entry of every other resource as they are, and leaves
\* every bucket registered before alive with its content; after a trusted
\* TakeAllFromWorktop(R) the pool has no entry for R.
C38_TakesTouchOnlyNamed ==
    Feeding =>
        \A t \in TakeInstructions :
            LET r == Run(t) IN
            r.panic = "none" =>
                /\ worktop_is_untracked_mode(r.wt) = ~WorktopTracked
                /\ \A R \in ResourceAddresses \ {t.resource_address} :
                       r.wt.worktop_content[R] = Pool[R]
                /\ bucket_is_untracked_mode(r.bt) = ~BucketsTracked
                /\ \A b \in DOMAIN Buckets :
                       b \in DOMAIN r.bt.buckets /\ r.bt.buckets[b] = Buckets[b]
                /\ (t.op = "TakeAllFromWorktop" /\ Last(r.out).trusted)
                       => r.wt.worktop_content[t.resource_address] = None

\* With 1 XRD and an id of NFT on the worktop, all of XRD was taken: the NFT
\* entry is as it was and XRD has no entry.
C38_Witness ==
    /\ Running /\ WorktopTracked /\ BucketsTracked
    /\ Len(Output) = 3
    /\ Output[3] = TrustedWith(Amount("XRD", 1))
    /\ Pool["XRD"] = None
    /\ Pool["NFT"] = Ids("NFT", {"#1#"})
    /\ Buckets = (0 :> Amount("XRD", 1))

====
